---------------------------- MODULE Spec2Model ----------------------------
(***************************************************************************)
(* Model of the adaptive trie fuzzy search engine                          *)
(* (backend/storage/trie_fuzzy_search.py, class AdaptiveTrieFuzzySearch).  *)
(*                                                                         *)
(* Strings are sequences of one-character strings.  A query is a sequence  *)
(* of lexemes: characters, plus the filter keywords "@type:", "@ext:",     *)
(* "@size:", "@date:" and whole date literals, each kept as one lexeme.    *)
(* Time is counted in whole days.                                          *)
(***************************************************************************)
EXTENDS Integers, Sequences, FiniteSets, TLC

VARIABLES
    root,               \* the trie: path -> TrieNode (the empty path is self.root)
    files_index,        \* insertion-ordered dict file_id -> file_data, as a sequence
    user_interactions,  \* defaultdict file_id -> interaction record
    search_history,     \* list of [query, timestamp]
    now,                \* datetime.now(), in days
    ops,                \* how many calls of each mutating method were made
    last_search,        \* arguments and outcome of the latest search call
    prev_search,        \* the same for the search call before it
    between,            \* what was called between prev_search and last_search
    since,              \* what was called since last_search
    inserted,           \* every (word, file_id) pair handed to insert_word
    lev_in,             \* arguments of a levenshtein_distance call
    lev_out,            \* its return value
    stats,              \* what the latest get_stats call returned
    running             \* the calls in progress in other threads

vars == <<root, files_index, user_interactions, search_history, now, ops,
          last_search, prev_search, between, since, inserted, lev_in, lev_out,
          stats, running>>

---------------------------------------------------------------------------
(* Bounds of the model.                                                    *)

\* longest word handed to insert_word directly
MaxWordLen == 3
\* direct insert_word calls
MaxInserts == 2
\* index_file calls
MaxIndexCalls == 2
\* record_interaction calls
MaxInteractions == 2
\* days the clock advances
MaxDay == 3
\* logged search calls
MaxSearches == 2
\* clear_search_cache calls
MaxClears == 1
\* initialize_search_index calls
MaxRebuilds == 1
\* longest argument of levenshtein_distance
MaxLevLen == 4
\* largest max_distance argument
MaxDist == 2

---------------------------------------------------------------------------
(* Strings.                                                                *)

\* An optional value: <<>> is None, <<v>> is the value v.
None == <<>>
Some(v) == <<v>>
IsNone(o) == Len(o) = 0
Val(o) == o[1]

LowerLetters == {"a","b","c","d","e","f","g","h","i","j","k","l","m",
                 "n","o","p","q","r","s","t","u","v","w","x","y","z"}
UpperLetters == {"A","B","C","D","E","F","G","H","I","J","K","L","M",
                 "N","O","P","Q","R","S","T","U","V","W","X","Y","Z"}
Digits == {"0","1","2","3","4","5","6","7","8","9"}

UpperToLower ==
    [A |-> "a", B |-> "b", C |-> "c", D |-> "d", E |-> "e", F |-> "f",
     G |-> "g", H |-> "h", I |-> "i", J |-> "j", K |-> "k", L |-> "l",
     M |-> "m", N |-> "n", O |-> "o", P |-> "p", Q |-> "q", R |-> "r",
     S |-> "s", T |-> "t", U |-> "u", V |-> "v", W |-> "w", X |-> "x",
     Y |-> "y", Z |-> "z"]

\* The filter keywords, matched with re.IGNORECASE: one lexeme per spelling.
TypeKeys == {"@type:", "@TYPE:"}
ExtKeys == {"@ext:", "@EXT:"}
SizeKeys == {"@size:", "@SIZE:"}
DateKeys == {"@date:", "@DATE:"}

\* The Greek sigmas, one lexeme each: capital, small, and small final sigma.
Sigmas == {"SIGMA", "sigma", "fsigma"}

\* cased characters, seen looking left and looking right of a capital sigma
CasedLeft(c) ==
    c \in LowerLetters \cup UpperLetters \cup Sigmas
           \cup TypeKeys \cup ExtKeys \cup SizeKeys \cup DateKeys
CasedRight(c) == c \in LowerLetters \cup UpperLetters \cup Sigmas

\* characters str.lower() skips when it looks for a cased neighbour
CaseIgnorable == {".", ":"}

\* the lower case of a lexeme that lower-cases the same wherever it stands
LowerChar(c) ==
    IF c \in UpperLetters THEN UpperToLower[c]
    ELSE IF c = "@TYPE:" THEN "@type:"
    ELSE IF c = "@EXT:" THEN "@ext:"
    ELSE IF c = "@SIZE:" THEN "@size:"
    ELSE IF c = "@DATE:" THEN "@date:"
    ELSE c

\* str.lower() turns the capital sigma at position i into a final sigma:
\* a cased character before it and none after it, case-ignorable ones skipped
FinalSigma(s, i) ==
    /\ \E j \in 1..(i - 1) :
           CasedLeft(s[j]) /\ \A k \in (j + 1)..(i - 1) : s[k] \in CaseIgnorable
    /\ ~\E j \in (i + 1)..Len(s) :
           CasedRight(s[j]) /\ \A k \in (i + 1)..(j - 1) : s[k] \in CaseIgnorable

\* the list f[1], ..., f[n] of a function f on 1..n
List(f) == SubSeq(f, 1, Len(f))

\* str.lower()
Lower(s) ==
    List([i \in 1..Len(s) |->
              IF s[i] = "SIGMA"
              THEN IF FinalSigma(s, i) THEN "fsigma" ELSE "sigma"
              ELSE LowerChar(s[i])])

\* the characters of a lexeme
Expand(c) ==
    IF c = "@type:" THEN <<"@","t","y","p","e",":">>
    ELSE IF c = "@TYPE:" THEN <<"@","T","Y","P","E",":">>
    ELSE IF c = "@ext:" THEN <<"@","e","x","t",":">>
    ELSE IF c = "@EXT:" THEN <<"@","E","X","T",":">>
    ELSE IF c = "@size:" THEN <<"@","s","i","z","e",":">>
    ELSE IF c = "@SIZE:" THEN <<"@","S","I","Z","E",":">>
    ELSE IF c = "@date:" THEN <<"@","d","a","t","e",":">>
    ELSE IF c = "@DATE:" THEN <<"@","D","A","T","E",":">>
    ELSE IF c = "2024-01-01" THEN <<"2","0","2","4","-","0","1","-","0","1">>
    ELSE IF c = "2024-01-02" THEN <<"2","0","2","4","-","0","1","-","0","2">>
    ELSE IF c = "2024-13-45" THEN <<"2","0","2","4","-","1","3","-","4","5">>
    ELSE <<c>>

\* a lexeme sequence as the string of its characters
RECURSIVE Chars(_)
Chars(s) == IF Len(s) = 0 THEN <<>> ELSE Expand(s[1]) \o Chars(Tail(s))

\* the regular expression class \w
IsWordChar(c) ==
    c \in LowerLetters \cup UpperLetters \cup Sigmas \cup Digits \cup {"_"}

\* whitespace, as str.split() and str.strip() see it
IsSpace(c) == c = " "

\* s[:n] with n >= 0
Take(s, n) == SubSeq(s, 1, IF n < Len(s) THEN n ELSE Len(s))

\* s[n:] with n >= 0
Drop(s, n) == SubSeq(s, n + 1, Len(s))

\* s.startswith(p)
StartsWith(s, p) == Len(p) <= Len(s) /\ SubSeq(s, 1, Len(p)) = p

\* p in s, for strings
Contains(s, p) ==
    \E i \in 0..(Len(s) - Len(p)) : SubSeq(s, i + 1, i + Len(p)) = p

\* x in lst, for lists
InList(x, lst) == \E i \in 1..Len(lst) : lst[i] = x

Min2(a, b) == IF a < b THEN a ELSE b
Max2(a, b) == IF a > b THEN a ELSE b
Abs(a) == IF a < 0 THEN -a ELSE a

\* list(set(...)) of small ints: ascending order
RECURSIVE SetToList(_)
SetToList(S) ==
    IF S = {} THEN <<>>
    ELSE LET m == CHOOSE x \in S : \A y \in S : x <= y
         IN <<m>> \o SetToList(S \ {m})

ListToSet(lst) == {lst[i] : i \in 1..Len(lst)}

---------------------------------------------------------------------------
(* TrieNode and the trie.                                                  *)

TrieNode == [file_references |-> <<>>, frequency |-> 0, is_end_of_word |-> FALSE]

EmptyTrie == (<<>> :> TrieNode)

\* node.children of the node at path p, as the set of child paths
Children(t, p) ==
    {q \in DOMAIN t : Len(q) = Len(p) + 1 /\ SubSeq(q, 1, Len(p)) = p}

\* a node after a pass that appends the file_id without looking for it
TouchAppending(node, fid) ==
    [node EXCEPT !.frequency = @ + 1, !.file_references = Append(@, fid)]

\* a node after insert_word passed through it for file_id fid
Touch(node, fid) ==
    [node EXCEPT !.frequency = @ + 1,
                 !.file_references = IF InList(fid, @) THEN @
                                     ELSE Append(@, fid)]

\* the loop of insert_word from the k-th character of w on
RECURSIVE InsertFrom(_, _, _, _)
InsertFrom(t, w, k, fid) ==
    IF k = Len(w)
    THEN [t EXCEPT ![w].is_end_of_word = TRUE]
    ELSE LET p == SubSeq(w, 1, k + 1)
         IN IF p \in DOMAIN t
            THEN InsertFrom([t EXCEPT ![p] = Touch(@, fid)], w, k + 1, fid)
            ELSE InsertFrom((p :> Touch(TrieNode, fid)) @@ t, w, k + 1, fid)

\* an insert_word that keeps the file reference at the last node only
RECURSIVE InsertLeaf(_, _, _, _)
InsertLeaf(t, w, k, fid) ==
    IF k = Len(w)
    THEN [t EXCEPT ![w].is_end_of_word = TRUE]
    ELSE LET p == SubSeq(w, 1, k + 1)
             node == IF p \in DOMAIN t THEN t[p] ELSE TrieNode
             passed == IF k + 1 = Len(w) THEN Touch(node, fid)
                       ELSE [node EXCEPT !.frequency = @ + 1]
         IN InsertLeaf((p :> passed) @@ t, w, k + 1, fid)

insert_word_leaf(t, word, fid) == InsertLeaf(t, Lower(word), 0, fid)

insert_word(t, word, fid) == InsertFrom(t, Lower(word), 0, fid)

\* the descent of exact_prefix_search: the node reached, or None
RECURSIVE Walk(_, _, _)
Walk(t, p, k) ==
    IF k = Len(p) THEN Some(p)
    ELSE IF SubSeq(p, 1, k + 1) \notin DOMAIN t THEN None
    ELSE Walk(t, p, k + 1)

\* collect_files: the references of a node and of all its descendants
RECURSIVE collect_files(_, _)
collect_files(t, p) ==
    ListToSet(t[p].file_references)
        \cup UNION {collect_files(t, c) : c \in Children(t, p)}

exact_prefix_search(t, prefix) ==
    LET p == Lower(prefix)
        node == Walk(t, p, 0)
    IN IF IsNone(node) THEN <<>> ELSE SetToList(collect_files(t, Val(node)))

---------------------------------------------------------------------------
(* Levenshtein distance with early termination.                            *)

Min3(a, b, c) == Min2(a, Min2(b, c))

\* one row of the table, current_row, for the i-th character c1 of s1;
\* a row lists the columns 0..len(s2) at the positions 1..len(s2)+1
RECURSIVE LevRow(_, _, _, _)
LevRow(c1, s2, previous_row, current_row) ==
    LET j == Len(current_row)
    IN IF j > Len(s2) THEN current_row
       ELSE LET insertions == previous_row[j + 1] + 1
                deletions == current_row[j] + 1
                substitutions == previous_row[j] + (IF c1 # s2[j] THEN 1 ELSE 0)
            IN LevRow(c1, s2, previous_row,
                      Append(current_row,
                             Min3(insertions, deletions, substitutions)))

\* min_in_row
RowMin(row) == CHOOSE m \in ListToSet(row) : \A k \in 1..Len(row) : m <= row[k]

RECURSIVE LevRows(_, _, _, _, _)
LevRows(s1, s2, i, previous_row, max_distance) ==
    IF i > Len(s1) THEN previous_row[Len(previous_row)]
    ELSE LET current_row == LevRow(s1[i], s2, previous_row, <<i>>)
         IN IF RowMin(current_row) > max_distance
            THEN max_distance + 1
            ELSE LevRows(s1, s2, i + 1, current_row, max_distance)

\* a length test that gives up a pair whose lengths differ by the budget
levenshtein_distance_eager(a, b, max_distance) ==
    IF Len(a) # Len(b) /\ Abs(Len(a) - Len(b)) >= max_distance
    THEN max_distance + 1
    ELSE LET s1 == IF Len(a) < Len(b) THEN b ELSE a
             s2 == IF Len(a) < Len(b) THEN a ELSE b
         IN IF Len(s2) = 0 THEN Len(s1)
            ELSE LevRows(s1, s2, 1, List([j \in 1..(Len(s2) + 1) |-> j - 1]),
                         max_distance)

levenshtein_distance(a, b, max_distance) ==
    IF Abs(Len(a) - Len(b)) > max_distance THEN max_distance + 1
    ELSE LET s1 == IF Len(a) < Len(b) THEN b ELSE a
             s2 == IF Len(a) < Len(b) THEN a ELSE b
         IN IF Len(s2) = 0 THEN Len(s1)
            ELSE LevRows(s1, s2, 1, List([j \in 1..(Len(s2) + 1) |-> j - 1]),
                         max_distance)

\* a dfs that gives a node two or more characters deep up as soon as its
\* parent has used the whole budget
RECURSIVE dfs_hasty(_, _, _, _, _)
dfs_hasty(t, current_word, prefix, distance, max_distance) ==
    IF distance >= max_distance /\ Len(current_word) > 1 THEN {}
    ELSE LET curr_distance ==
                 levenshtein_distance(current_word,
                                      Take(prefix, Len(current_word)),
                                      max_distance)
             here == IF Len(current_word) >= Len(prefix)
                        /\ curr_distance <= max_distance
                     THEN ListToSet(t[current_word].file_references)
                     ELSE {}
             below == IF curr_distance <= max_distance
                         \/ Len(current_word) < Len(prefix)
                      THEN UNION {dfs_hasty(t, c, prefix, curr_distance, max_distance) :
                                      c \in Children(t, current_word)}
                      ELSE {}
         IN here \cup below

\* the dfs closure of fuzzy_search_trie
RECURSIVE dfs(_, _, _, _, _)
dfs(t, current_word, prefix, distance, max_distance) ==
    IF distance > max_distance THEN {}
    ELSE LET curr_distance ==
                 levenshtein_distance(current_word,
                                      Take(prefix, Len(current_word)),
                                      max_distance)
             here == IF Len(current_word) >= Len(prefix)
                        /\ curr_distance <= max_distance
                     THEN ListToSet(t[current_word].file_references)
                     ELSE {}
             below == IF curr_distance <= max_distance
                         \/ Len(current_word) < Len(prefix)
                      THEN UNION {dfs(t, c, prefix, curr_distance, max_distance) :
                                      c \in Children(t, current_word)}
                      ELSE {}
         IN here \cup below

\* a fuzzy search that tolerates no edit: the prefix search
fuzzy_search_trie_strict(t, prefix, max_distance) ==
    exact_prefix_search(t, prefix)

fuzzy_search_trie(t, prefix, max_distance) ==
    SetToList(dfs(t, <<>>, Lower(prefix), 0, max_distance))

---------------------------------------------------------------------------
(* Text helpers of the query parser.                                       *)

\* s.strip()
RECURSIVE LStrip(_)
LStrip(s) == IF Len(s) > 0 /\ IsSpace(s[1]) THEN LStrip(Tail(s)) ELSE s

RECURSIVE RStrip(_)
RStrip(s) ==
    IF Len(s) > 0 /\ IsSpace(s[Len(s)])
    THEN RStrip(SubSeq(s, 1, Len(s) - 1)) ELSE s

Strip(s) == RStrip(LStrip(s))

\* s.replace(sub, ''), sub not empty: every non-overlapping occurrence, left to right
RECURSIVE RemoveAll(_, _)
RemoveAll(s, sub) ==
    IF Len(s) < Len(sub) THEN s
    ELSE IF SubSeq(s, 1, Len(sub)) = sub THEN RemoveAll(Drop(s, Len(sub)), sub)
    ELSE <<s[1]>> \o RemoveAll(Tail(s), sub)

\* s.split(): the whitespace-separated words, in order
RECURSIVE Split(_)
Split(s) ==
    LET t == LStrip(s)
    IN IF Len(t) = 0 THEN <<>>
       ELSE LET e == CHOOSE k \in 1..Len(t) :
                         /\ \A i \in 1..k : ~IsSpace(t[i])
                         /\ (k = Len(t) \/ IsSpace(t[k + 1]))
            IN <<SubSeq(t, 1, e)>> \o Split(Drop(t, e))

\* ' '.join(words)
RECURSIVE Join(_)
Join(words) ==
    IF Len(words) = 0 THEN <<>>
    ELSE IF Len(words) = 1 THEN words[1]
    ELSE words[1] \o <<" ">> \o Join(Tail(words))

\* re.findall(r'\w+', s): the maximal runs of word characters, in order
RECURSIVE FindWords(_)
FindWords(s) ==
    IF Len(s) = 0 THEN <<>>
    ELSE IF ~IsWordChar(s[1]) THEN FindWords(Tail(s))
    ELSE LET e == CHOOSE k \in 1..Len(s) :
                      /\ \A i \in 1..k : IsWordChar(s[i])
                      /\ (k = Len(s) \/ ~IsWordChar(s[k + 1]))
         IN <<SubSeq(s, 1, e)>> \o FindWords(Drop(s, e))

\* the end of the greedy run of characters of class C that starts at position i
\* (i - 1 when s[i] is not in the class)
RECURSIVE RunEnd(_, _, _)
RunEnd(s, i, C) ==
    IF i <= Len(s) /\ s[i] \in C THEN RunEnd(s, i + 1, C) ELSE i - 1

WordChars == LowerLetters \cup UpperLetters \cup Sigmas \cup Digits \cup {"_"}

\* int(digits)
RECURSIVE DigitsValue(_)
DigitsValue(ds) ==
    IF Len(ds) = 0 THEN 0
    ELSE 10 * DigitsValue(SubSeq(ds, 1, Len(ds) - 1))
         + (CHOOSE n \in 0..9 : ToString(n) = ds[Len(ds)])

RECURSIVE Pow10(_)
Pow10(n) == IF n = 0 THEN 1 ELSE 10 * Pow10(n - 1)

---------------------------------------------------------------------------
(* _build_semantic_map.                                                    *)

W_image == <<"i","m","a","g","e">>

W_video == <<"v","i","d","e","o">>

W_audio == <<"a","u","d","i","o">>

W_document == <<"d","o","c","u","m","e","n","t">>

W_code == <<"c","o","d","e">>

W_compressed == <<"c","o","m","p","r","e","s","s","e","d">>

Keys_image ==
    {<<"p","h","o","t","o">>, <<"p","h","o","t","o","s">>,
     <<"p","i","c","t","u","r","e">>, <<"p","i","c","t","u","r","e","s">>,
     <<"i","m","g">>, <<"s","c","r","e","e","n","s","h","o","t">>,
     <<"s","c","r","e","e","n","s","h","o","t","s">>}

Keys_video ==
    {<<"v","i","d","e","o">>, <<"v","i","d","e","o","s">>,
     <<"m","o","v","i","e">>, <<"m","o","v","i","e","s">>,
     <<"f","i","l","m">>, <<"c","l","i","p">>, <<"c","l","i","p","s">>}

Keys_audio ==
    {<<"a","u","d","i","o">>, <<"m","u","s","i","c">>, <<"s","o","n","g">>,
     <<"s","o","n","g","s">>, <<"t","r","a","c","k">>,
     <<"p","o","d","c","a","s","t">>, <<"p","o","d","c","a","s","t","s">>,
     <<"s","o","u","n","d">>}

Keys_document ==
    {<<"d","o","c","u","m","e","n","t">>,
     <<"d","o","c","u","m","e","n","t","s">>, <<"d","o","c">>,
     <<"d","o","c","s">>, <<"p","d","f">>, <<"p","d","f","s">>,
     <<"t","e","x","t">>, <<"r","e","p","o","r","t">>,
     <<"r","e","p","o","r","t","s">>,
     <<"s","p","r","e","a","d","s","h","e","e","t">>,
     <<"s","p","r","e","a","d","s","h","e","e","t","s">>,
     <<"p","r","e","s","e","n","t","a","t","i","o","n">>,
     <<"p","r","e","s","e","n","t","a","t","i","o","n","s">>}

Keys_code ==
    {<<"c","o","d","e">>, <<"s","c","r","i","p","t">>,
     <<"s","c","r","i","p","t","s">>, <<"p","r","o","g","r","a","m">>,
     <<"s","o","u","r","c","e">>}

Keys_compressed ==
    {<<"a","r","c","h","i","v","e">>, <<"a","r","c","h","i","v","e","s">>,
     <<"z","i","p">>, <<"c","o","m","p","r","e","s","s","e","d">>}

SemanticKeys ==
    Keys_image \cup Keys_video \cup Keys_audio \cup Keys_document
        \cup Keys_code \cup Keys_compressed

\* self.semantic_map[k], for k in SemanticKeys
semantic_map(k) ==
    IF k \in Keys_image THEN <<W_image>>
    ELSE IF k \in Keys_video THEN <<W_video>>
    ELSE IF k \in Keys_audio THEN <<W_audio>>
    ELSE IF k \in Keys_document THEN <<W_document>>
    ELSE IF k \in Keys_code THEN <<W_code>>
    ELSE <<W_compressed>>

semantic_expand_query(query) ==
    LET query_lower == Lower(query)
    IN IF query_lower \in SemanticKeys
       THEN <<query_lower>> \o semantic_map(query_lower)
       ELSE <<query_lower>>

---------------------------------------------------------------------------
(* parse_advanced_filters.                                                 *)

\* The date literals of shape \d{4}-\d{2}-\d{2}, one lexeme each, and what
\* datetime.strptime(.., '%Y-%m-%d') makes of them: a day, or ValueError (None).
DateShaped == {"2024-01-01", "2024-01-02", "2024-13-45"}

strptime(lexeme) ==
    IF lexeme = "2024-01-01" THEN Some(1)
    ELSE IF lexeme = "2024-01-02" THEN Some(2)
    ELSE None

\* the least element of a non-empty set of positions
First(S) == CHOOSE i \in S : \A j \in S : i <= j

\* re.search(r'@type:(\w+)') and re.search(r'@ext:(\w+)'): [start, end] or None
KeywordMatch(q, keys) ==
    LET at == {i \in 1..(Len(q) - 1) : q[i] \in keys /\ IsWordChar(q[i + 1])}
    IN IF at = {} THEN None
       ELSE Some([start |-> First(at),
                  end |-> RunEnd(q, First(at) + 1, WordChars)])

\* the span a size filter starting at position i matches, or None
SizeMatchAt(q, i) ==
    LET hasOp == i + 1 <= Len(q) /\ q[i + 1] \in {">", "<"}
        d0 == IF hasOp THEN i + 2 ELSE i + 1
        e1 == RunEnd(q, d0, Digits)
        hasDot == e1 + 1 <= Len(q) /\ q[e1 + 1] = "."
        e2 == IF hasDot THEN RunEnd(q, e1 + 2, Digits) ELSE e1
        hasUnit == /\ e2 + 2 <= Len(q)
                   /\ LowerChar(q[e2 + 1]) \in {"k", "m", "g"}
                   /\ LowerChar(q[e2 + 2]) = "b"
    IN IF q[i] \in SizeKeys /\ e1 >= d0
       THEN Some([start |-> i,
                  end |-> IF hasUnit THEN e2 + 2 ELSE e2,
                  operator |-> IF hasOp THEN q[i + 1] ELSE ">",
                  whole |-> SubSeq(q, d0, e1),
                  frac |-> IF hasDot THEN SubSeq(q, e1 + 2, e2) ELSE <<>>,
                  unit |-> IF hasUnit THEN LowerChar(q[e2 + 1]) ELSE "k"])
       ELSE None

\* re.search(r'@size:([><])?(\d+\.?\d*)(kb|mb|gb)?')
SizeMatch(q) ==
    LET at == {i \in 1..Len(q) : ~IsNone(SizeMatchAt(q, i))}
    IN IF at = {} THEN None ELSE SizeMatchAt(q, First(at))

\* multipliers[unit]
Multiplier(unit) ==
    IF unit = "k" THEN 1024
    ELSE IF unit = "m" THEN 1024 * 1024
    ELSE 1024 * 1024 * 1024

\* size * multiplier as the fraction num / den of bytes
SizeBytes(m) ==
    [num |-> (DigitsValue(m.whole) * Pow10(Len(m.frac)) + DigitsValue(m.frac))
                 * Multiplier(m.unit),
     den |-> Pow10(Len(m.frac))]

\* the span a date filter starting at position i matches, or None
DateMatchAt(q, i) ==
    LET hasOp == i + 1 <= Len(q) /\ q[i + 1] \in {">", "<"}
        d0 == IF hasOp THEN i + 2 ELSE i + 1
    IN IF q[i] \in DateKeys /\ d0 <= Len(q) /\ q[d0] \in DateShaped
       THEN Some([start |-> i, end |-> d0,
                  operator |-> IF hasOp THEN q[i + 1] ELSE ">",
                  date_str |-> q[d0]])
       ELSE None

\* re.search(r'@date:([><])?(\d{4}-\d{2}-\d{2})')
DateMatch(q) ==
    LET at == {i \in 1..Len(q) : ~IsNone(DateMatchAt(q, i))}
    IN IF at = {} THEN None ELSE DateMatchAt(q, First(at))

\* query.replace(match.group(0), '').strip()
CutMatch(q, m) == Strip(RemoveAll(q, SubSeq(q, m.start, m.end)))

\* query after a filter was looked for: cut when it matched, as it was otherwise
Remaining(q, match) == IF IsNone(match) THEN q ELSE CutMatch(q, Val(match))

\* The filters dict as parse_advanced_filters creates it; raised is set when
\* the call ends in the ValueError of strptime.
NoFilters ==
    [type |-> None, size_min |-> None, size_max |-> None, date_from |-> None,
     date_to |-> None, extension |-> None, search_terms |-> <<>>,
     raised |-> FALSE]

\* filters['search_terms'] = [term for term in query.split() if term]
ParseTerms(filters, q) ==
    LET words == Split(q)
    IN [filters EXCEPT
            !.search_terms = List([i \in 1..Len(words) |-> Chars(words[i])])]

\* the date filter, found
ParseDateFound(filters, date_obj, operator) ==
    IF IsNone(date_obj) THEN [filters EXCEPT !.raised = TRUE]
    ELSE IF operator = ">" THEN [filters EXCEPT !.date_from = date_obj]
    ELSE [filters EXCEPT !.date_to = date_obj]

\* "Extract @date: filter", then the search terms
ParseDate(filters, q) ==
    LET date_match == DateMatch(q)
        parsed == IF IsNone(date_match) THEN filters
                  ELSE ParseDateFound(filters,
                                      strptime(Val(date_match).date_str),
                                      Val(date_match).operator)
    IN IF parsed.raised THEN parsed
       ELSE ParseTerms(parsed, Remaining(q, date_match))

\* "Extract @size: filter", then the rest
ParseSize(filters, q) ==
    LET size_match == SizeMatch(q)
    IN ParseDate(IF IsNone(size_match) THEN filters
                 ELSE IF Val(size_match).operator = ">"
                 THEN [filters EXCEPT
                           !.size_min = Some(SizeBytes(Val(size_match)))]
                 ELSE [filters EXCEPT
                           !.size_max = Some(SizeBytes(Val(size_match)))],
                 Remaining(q, size_match))

\* "Extract @ext: filter", then the rest
ParseExt(filters, q) ==
    LET ext_match == KeywordMatch(q, ExtKeys)
    IN ParseSize(IF IsNone(ext_match) THEN filters
                 ELSE [filters EXCEPT !.extension =
                           Some(Lower(SubSeq(q, Val(ext_match).start + 1,
                                             Val(ext_match).end)))],
                 Remaining(q, ext_match))

\* "Extract @type: filter", then the rest
ParseType(filters, q) ==
    LET type_match == KeywordMatch(q, TypeKeys)
    IN ParseExt(IF IsNone(type_match) THEN filters
                ELSE [filters EXCEPT !.type =
                          Some(Lower(SubSeq(q, Val(type_match).start + 1,
                                            Val(type_match).end)))],
                Remaining(q, type_match))

parse_advanced_filters(query) == ParseType(NoFilters, query)

---------------------------------------------------------------------------
(* files_index, an insertion-ordered dict kept as a list of file_data.     *)

\* a lookup that makes up a file_data for the id it does not hold
FileGetDefault(files, fid) ==
    LET at == {i \in 1..Len(files) : files[i].id = fid}
    IN IF at = {}
       THEN Some([id |-> fid, name |-> <<>>, type |-> <<>>, size |-> 0,
                  uploaded_at |-> [kind |-> "none", day |-> 0], tags |-> <<>>,
                  extension |-> <<>>])
       ELSE Some(files[CHOOSE i \in at : \A j \in at : i <= j])

\* self.files_index.get(file_id): None or the file_data
FileGet(files, fid) ==
    LET at == {i \in 1..Len(files) : files[i].id = fid}
    IN IF at = {} THEN None ELSE Some(files[First(at)])

\* self.files_index[file_id] = file_data
FilePut(files, fd) ==
    IF \E i \in 1..Len(files) : files[i].id = fd.id
    THEN List([i \in 1..Len(files) |->
                   IF files[i].id = fd.id THEN fd ELSE files[i]])
    ELSE Append(files, fd)

\* the words index_file hands to insert_word, in order
IndexWords(fd) ==
    FindWords(Lower(fd.name))
        \o <<RemoveAll(Lower(fd.name), <<" ">>)>>
        \o (IF Len(fd.type) > 0 THEN <<Lower(fd.type)>> ELSE <<>>)
        \o (IF Len(fd.extension) > 0
            THEN <<RemoveAll(Lower(fd.extension), <<".">>)>> ELSE <<>>)
        \o List([i \in 1..Len(fd.tags) |-> Lower(fd.tags[i])])

RECURSIVE InsertAll(_, _, _)
InsertAll(t, words, fid) ==
    IF Len(words) = 0 THEN t
    ELSE InsertAll(insert_word(t, words[1], fid), Tail(words), fid)

\* the trie after index_file(file_data)
index_file(t, fd) == InsertAll(t, IndexWords(fd), fd.id)

---------------------------------------------------------------------------
(* apply_filters: "pass", "fail", or "raise" (TypeError on comparing an    *)
(* offset-aware uploaded_at with the naive filter date).                   *)

\* a filter stage that lets every file through
apply_filters_open(files, fid, filters) == "pass"

apply_filters(files, fid, filters) ==
    LET got == FileGet(files, fid)
        fd == Val(got)
        file_ext == RemoveAll(Lower(fd.extension), <<".">>)
        dated == ~IsNone(filters.date_from) \/ ~IsNone(filters.date_to)
    IN IF IsNone(got) THEN "fail"
       ELSE IF ~IsNone(filters.type) /\ Lower(fd.type) # Val(filters.type)
       THEN "fail"
       ELSE IF ~IsNone(filters.extension) /\ file_ext # Val(filters.extension)
       THEN "fail"
       ELSE IF ~IsNone(filters.size_min)
               /\ fd.size * Val(filters.size_min).den < Val(filters.size_min).num
       THEN "fail"
       ELSE IF ~IsNone(filters.size_max)
               /\ fd.size * Val(filters.size_max).den > Val(filters.size_max).num
       THEN "fail"
       ELSE IF dated /\ fd.uploaded_at.kind = "aware" THEN "raise"
       ELSE IF dated /\ fd.uploaded_at.kind = "naive"
               /\ ~IsNone(filters.date_from)
               /\ fd.uploaded_at.day < Val(filters.date_from)
       THEN "fail"
       ELSE IF dated /\ fd.uploaded_at.kind = "naive"
               /\ ~IsNone(filters.date_to)
               /\ fd.uploaded_at.day > Val(filters.date_to)
       THEN "fail"
       ELSE "pass"

---------------------------------------------------------------------------
(* The interaction store and calculate_score.                              *)

\* the default record of self.user_interactions
NewInteractions ==
    [view_count |-> 0, download_count |-> 0, search_selections |-> 0,
     last_accessed |-> None, search_queries |-> <<>>]

\* the store after self.user_interactions[file_id]: the defaultdict creates
\* the record that is missing
StoreAfterSubscript(ui, file_id) ==
    IF file_id \in DOMAIN ui THEN ui ELSE (file_id :> NewInteractions) @@ ui

\* the store after self.user_interactions.get(file_id, {}): dict.get creates
\* nothing
StoreAfterGet(ui, file_id) == ui

\* the store after calculate_score was called for each of the matches
RECURSIVE StoreAfterScoring(_, _)
StoreAfterScoring(ui, scored) ==
    IF Len(scored) = 0 THEN ui
    ELSE StoreAfterScoring(StoreAfterGet(ui, scored[1].id), Tail(scored))

\* match_scores.get(match_type, 30)
MatchScore(match_type) ==
    IF match_type = "exact" THEN 100
    ELSE IF match_type = "prefix" THEN 80
    ELSE IF match_type = "fuzzy" THEN 60
    ELSE IF match_type = "semantic" THEN 40
    ELSE 30

\* the filename match bonus
FilenameBonus(fd, query) ==
    LET filename == Lower(fd.name)
        query_lower == Lower(query)
    IN IF query_lower = filename THEN 50
       ELSE IF StartsWith(filename, query_lower) THEN 30
       ELSE IF Contains(filename, query_lower) THEN 20
       ELSE 0

\* a boost that decays from day 0 on, whether the record was accessed or not
RecencyBoostSinceStart(interactions, clock) ==
    IF clock < 7 THEN (7 - clock) * 3 ELSE 0

\* the recency boost of an interaction record at time clock
RecencyBoost(interactions, clock) ==
    IF IsNone(interactions.last_accessed) THEN 0
    ELSE LET days_since == clock - Val(interactions.last_accessed)
         IN IF days_since < 7 THEN (7 - days_since) * 3 ELSE 0

\* calculate_score without the interaction, recency and query-history boosts
calculate_score_static(files, ui, clock, file_id, query, match_type) ==
    LET got == FileGet(files, file_id)
    IN IF IsNone(got) THEN 0
       ELSE MatchScore(match_type) + FilenameBonus(Val(got), query)

calculate_score(files, ui, clock, file_id, query, match_type) ==
    LET got == FileGet(files, file_id)
        interactions == IF file_id \in DOMAIN ui THEN ui[file_id]
                        ELSE NewInteractions
    IN IF IsNone(got) THEN 0
       ELSE MatchScore(match_type)
            + FilenameBonus(Val(got), query)
            + interactions.view_count * 2
            + interactions.download_count * 5
            + interactions.search_selections * 10
            + RecencyBoost(interactions, clock)
            + (IF InList(Lower(query), interactions.search_queries)
               THEN 15 ELSE 0)

\* record_interaction that leaves last_accessed as it was
record_interaction_unstamped(ui, clock, file_id, interaction_type, query) ==
    LET old == IF file_id \in DOMAIN ui THEN ui[file_id] ELSE NewInteractions
        counted ==
            IF interaction_type = "view"
            THEN [old EXCEPT !.view_count = @ + 1]
            ELSE IF interaction_type = "download"
            THEN [old EXCEPT !.download_count = @ + 1]
            ELSE IF interaction_type = "select"
            THEN [old EXCEPT !.search_selections = @ + 1]
            ELSE old
        logged ==
            IF ~IsNone(query) /\ Len(Val(query)) > 0
               /\ ~InList(Lower(Chars(Val(query))), counted.search_queries)
            THEN [counted EXCEPT
                      !.search_queries = Append(@, Lower(Chars(Val(query))))]
            ELSE counted
    IN (file_id :> logged) @@ ui

\* record_interaction that puts a new record in the place of the one it finds
record_interaction_afresh(ui, clock, file_id, interaction_type, query) ==
    (file_id :>
         [NewInteractions EXCEPT
              !.view_count = IF interaction_type = "view" THEN 1 ELSE 0,
              !.download_count = IF interaction_type = "download" THEN 1 ELSE 0,
              !.search_selections = IF interaction_type = "select" THEN 1 ELSE 0,
              !.last_accessed = Some(clock)]) @@ ui

\* the store after record_interaction(file_id, interaction_type, query)
record_interaction(ui, clock, file_id, interaction_type, query) ==
    LET old == IF file_id \in DOMAIN ui THEN ui[file_id] ELSE NewInteractions
        counted ==
            IF interaction_type = "view"
            THEN [old EXCEPT !.view_count = @ + 1]
            ELSE IF interaction_type = "download"
            THEN [old EXCEPT !.download_count = @ + 1]
            ELSE IF interaction_type = "select"
            THEN [old EXCEPT !.search_selections = @ + 1]
            ELSE old
        stamped == [counted EXCEPT !.last_accessed = Some(clock)]
        logged ==
            IF ~IsNone(query) /\ Len(Val(query)) > 0
               /\ ~InList(Lower(Chars(Val(query))), stamped.search_queries)
            THEN [stamped EXCEPT
                      !.search_queries = Append(@, Lower(Chars(Val(query))))]
            ELSE stamped
    IN (file_id :> logged) @@ ui

---------------------------------------------------------------------------
(* search.                                                                 *)

\* matches[file_id] = match_type for each listed id not yet in matches
RECURSIVE AddMatches(_, _, _)
AddMatches(matches, ids, match_type) ==
    IF Len(ids) = 0 THEN matches
    ELSE AddMatches(
             IF \E i \in 1..Len(matches) : matches[i].id = ids[1]
             THEN matches
             ELSE Append(matches, [id |-> ids[1], match_type |-> match_type]),
             Tail(ids), match_type)

\* the loop over expanded_queries
RECURSIVE CollectMatches(_, _, _, _, _)
CollectMatches(t, expanded_queries, search_terms, use_fuzzy, matches) ==
    IF Len(expanded_queries) = 0 THEN matches
    ELSE LET expanded_query == expanded_queries[1]
             match_type == IF expanded_query = search_terms
                           THEN "exact" ELSE "semantic"
             m1 == AddMatches(matches,
                              exact_prefix_search(t, expanded_query),
                              match_type)
             m2 == IF use_fuzzy
                   THEN AddMatches(m1,
                                   fuzzy_search_trie(t, expanded_query, 2),
                                   "fuzzy")
                   ELSE m1
         IN CollectMatches(t, Tail(expanded_queries), search_terms,
                           use_fuzzy, m2)

\* list.sort(key=search_score, reverse=True): stable, one element at a time
\* no sort: the results in the order the matches were collected
SortByScoreSkipped(rs) == rs

RECURSIVE SortByScore(_)
SortByScore(rs) ==
    IF Len(rs) = 0 THEN <<>>
    ELSE LET x == rs[Len(rs)]
             front == SortByScore(SubSeq(rs, 1, Len(rs) - 1))
             k == Cardinality({i \in 1..Len(front) :
                                   front[i].search_score >= x.search_score})
         IN SubSeq(front, 1, k) \o <<x>> \o SubSeq(front, k + 1, Len(front))

\* lst[:limit], for any integer limit
Slice(lst, limit) ==
    IF limit >= 0 THEN Take(lst, limit)
    ELSE Take(lst, Max2(Len(lst) + limit, 0))

\* "Calculate scores and rank": the scored results of the surviving matches,
\* sorted and cut to limit
RankMatches(files, ui, clock, search_terms, filtered_matches, limit) ==
    Slice(SortByScore(
              List([k \in 1..Len(filtered_matches) |->
                   [file |-> Val(FileGet(files, filtered_matches[k].id)),
                    search_score |->
                        calculate_score(files, ui, clock,
                                        filtered_matches[k].id, search_terms,
                                        filtered_matches[k].match_type),
                    match_type |-> filtered_matches[k].match_type]])),
          limit)

\* the matches that apply_filters accepts, in order
Passing(matches, verdict) ==
    LET kept == SetToList({i \in 1..Len(matches) : verdict[i] = "pass"})
    IN List([k \in 1..Len(kept) |-> matches[kept[k]]])

\* "Apply filters", then the ranking; apply_filters may raise TypeError
FilterMatches(files, ui, clock, filters, search_terms, matches, limit) ==
    LET verdict == List([i \in 1..Len(matches) |->
                             apply_filters(files, matches[i].id, filters)])
    IN IF \E i \in 1..Len(matches) : verdict[i] = "raise"
       THEN [raised |-> TRUE, logged |-> TRUE, results |-> <<>>, store |-> ui]
       ELSE [raised |-> FALSE, logged |-> TRUE,
             results |-> RankMatches(files, ui, clock, search_terms,
                                     Passing(matches, verdict), limit),
             store |-> StoreAfterScoring(ui, Passing(matches, verdict))]

\* "Collect matching file IDs with their match types", then the rest
MatchTerms(t, files, ui, clock, filters, search_terms, limit, use_fuzzy) ==
    FilterMatches(files, ui, clock, filters, search_terms,
                  IF Len(search_terms) > 0
                  THEN CollectMatches(t, semantic_expand_query(search_terms),
                                      search_terms, use_fuzzy, <<>>)
                  ELSE List([i \in 1..Len(files) |->
                                 [id |-> files[i].id, match_type |-> "filter"]]),
                  limit)

\* the stage without the special case: the terms are searched as they are
SearchTermsAsTyped(t, files, ui, clock, filters, search_terms, limit, use_fuzzy) ==
    MatchTerms(t, files, ui, clock, filters, search_terms, limit, use_fuzzy)

\* "If search term is a semantic keyword ... convert to type filter", then
\* the rest
SearchTerms(t, files, ui, clock, filters, search_terms, limit, use_fuzzy) ==
    LET semantic == Len(search_terms) > 0 /\ IsNone(filters.type)
                    /\ Lower(search_terms) \in SemanticKeys
    IN MatchTerms(t, files, ui, clock,
                  IF semantic
                  THEN [filters EXCEPT
                            !.type = Some(semantic_map(Lower(search_terms))[1])]
                  ELSE filters,
                  IF semantic THEN <<>> ELSE search_terms,
                  limit, use_fuzzy)

\* search once the filters are parsed; the ValueError of the parser leaves
\* search before search_history.append
SearchParsed(t, files, ui, clock, filters, limit, use_fuzzy) ==
    IF filters.raised
    THEN [raised |-> TRUE, logged |-> FALSE, results |-> <<>>, store |-> ui]
    ELSE SearchTerms(t, files, ui, clock, filters, Join(filters.search_terms),
                     limit, use_fuzzy)

\* What search(query, limit, use_fuzzy) does in the given engine state:
\* raised (ValueError or TypeError), logged (search_history.append ran),
\* results (the returned list), store (user_interactions after the call).
search(t, files, ui, clock, query, limit, use_fuzzy) ==
    IF Len(Strip(query)) = 0
    THEN [raised |-> FALSE, logged |-> FALSE, results |-> <<>>, store |-> ui]
    ELSE SearchParsed(t, files, ui, clock, parse_advanced_filters(query),
                      limit, use_fuzzy)

---------------------------------------------------------------------------
(* The engine as a state machine: one action per method call.              *)

\* no call is in progress in another thread
Idle == [index_file |-> None, record_interaction |-> <<>>]

\* nothing was called
NoOps == [interactions |-> <<>>, ticks |-> 0, indexed |-> FALSE]

\* AdaptiveTrieFuzzySearch(): the state after __init__
Init ==
    /\ root = EmptyTrie
    /\ files_index = <<>>
    /\ user_interactions = <<>>
    /\ search_history = <<>>
    /\ now = 0
    /\ ops = [insert_word |-> 0, index_file |-> 0, record_interaction |-> 0,
              clear_search_cache |-> 0, initialize_search_index |-> 0]
    /\ last_search = None
    /\ prev_search = None
    /\ between = NoOps
    /\ since = NoOps
    /\ inserted = {}
    /\ lev_in = None
    /\ lev_out = None
    /\ stats = None
    /\ running = Idle

\* insert_word(word, file_id), called directly
InsertWord(word, file_id) ==
    /\ root' = insert_word(root, word, file_id)
    /\ inserted' = inserted \cup {[word |-> word, file_id |-> file_id]}
    /\ ops' = [ops EXCEPT !.insert_word = @ + 1]
    /\ since' = [since EXCEPT !.indexed = TRUE]
    /\ UNCHANGED <<files_index, user_interactions, search_history, now,
                   last_search, prev_search, between, lev_in, lev_out>>
    /\ UNCHANGED <<stats, running>>

\* index_file(file_data)
IndexFile(file_data) ==
    /\ files_index' = FilePut(files_index, file_data)
    /\ root' = index_file(root, file_data)
    /\ inserted' = inserted \cup
           {[word |-> IndexWords(file_data)[i], file_id |-> file_data.id] :
                i \in 1..Len(IndexWords(file_data))}
    /\ ops' = [ops EXCEPT !.index_file = @ + 1]
    /\ since' = [since EXCEPT !.indexed = TRUE]
    /\ UNCHANGED <<user_interactions, search_history, now,
                   last_search, prev_search, between, lev_in, lev_out>>
    /\ UNCHANGED <<stats, running>>

\* record_interaction(file_id, interaction_type, query)
RecordInteraction(file_id, interaction_type, query) ==
    /\ user_interactions' =
           record_interaction(user_interactions, now, file_id,
                              interaction_type, query)
    /\ ops' = [ops EXCEPT !.record_interaction = @ + 1]
    /\ since' = [since EXCEPT !.interactions =
                     Append(@, [file_id |-> file_id,
                                interaction_type |-> interaction_type,
                                query |-> query,
                                day |-> now,
                                was |-> IF file_id \in DOMAIN user_interactions
                                        THEN user_interactions[file_id].last_accessed
                                        ELSE None])]
    /\ UNCHANGED <<root, files_index, search_history, now,
                   last_search, prev_search, between, inserted, lev_in, lev_out>>
    /\ UNCHANGED <<stats, running>>

\* search(query, limit, use_fuzzy)
Search(query, limit, use_fuzzy) ==
    LET r == search(root, files_index, user_interactions, now,
                    query, limit, use_fuzzy)
    IN /\ search_history' =
              IF r.logged
              THEN Append(search_history, [query |-> query, timestamp |-> now])
              ELSE search_history
       /\ last_search' = Some([query |-> query, limit |-> limit,
                               use_fuzzy |-> use_fuzzy, day |-> now,
                               raised |-> r.raised, results |-> r.results])
       /\ prev_search' = last_search
       /\ between' = since
       /\ since' = NoOps
       /\ user_interactions' = r.store
       /\ UNCHANGED <<root, files_index, now, ops, inserted, lev_in, lev_out>>
       /\ UNCHANGED <<stats, running>>

\* a day passes
Tick ==
    /\ now' = now + 1
    /\ since' = [since EXCEPT !.ticks = @ + 1]
    /\ UNCHANGED <<root, files_index, user_interactions, search_history, ops,
                   last_search, prev_search, between, inserted, lev_in, lev_out>>
    /\ UNCHANGED <<stats, running>>

\* levenshtein_distance(s1, s2, max_distance) on the arguments in lev_in
Levenshtein ==
    /\ IsNone(lev_out)
    /\ lev_out' = Some(levenshtein_distance(Val(lev_in).s1, Val(lev_in).s2,
                                            Val(lev_in).max_distance))
    /\ UNCHANGED <<root, files_index, user_interactions, search_history, now,
                   ops, last_search, prev_search, between, since, inserted,
                   lev_in>>
    /\ UNCHANGED <<stats, running>>

\* the strings over alphabet of length at most n
Strings(alphabet, n) == UNION {[1..k -> alphabet] : k \in 0..n}

\* a file_data dict
File(id, name, type, size, uploaded_at, tags, extension) ==
    [id |-> id, name |-> name, type |-> type, size |-> size,
     uploaded_at |-> uploaded_at, tags |-> tags, extension |-> extension]

Absent == [kind |-> "none", day |-> 0]
Naive(day) == [kind |-> "naive", day |-> day]
Aware(day) == [kind |-> "aware", day |-> day]
Garbage == [kind |-> "garbage", day |-> 0]

---------------------------------------------------------------------------
(* The trie alone: insert_word and index_file calls.                       *)

TrieWords == Strings({"a", "B", "SIGMA"}, MaxWordLen)

TrieFiles ==
    {File(1, <<"a", "b">>, <<>>, 0, Absent, <<>>, <<>>),
     File(2, <<"B", " ", "a">>, <<"a">>, 0, Absent,
          << <<"b", "SIGMA", "a">> >>, <<".", "b">>)}

NextTrie ==
    \/ \E word \in TrieWords, file_id \in {1, 2} :
           ops.insert_word < MaxInserts /\ InsertWord(word, file_id)
    \/ \E file_data \in TrieFiles :
           ops.index_file < MaxIndexCalls /\ IndexFile(file_data)

SpecTrie == Init /\ [][NextTrie]_vars

\* C1: every word handed to insert_word with a file id, directly or by
\* index_file, is found with that id by exact_prefix_search of each of its
\* non-empty prefixes, whatever was inserted afterwards.
C1_InsertedIsFound ==
    \A e \in inserted : \A k \in 1..Len(e.word) :
        InList(e.file_id, exact_prefix_search(root, Take(e.word, k)))

\* C1, for the words whose prefixes lower-case to prefixes of the lower-cased
\* word (every word index_file inserts, every word without a capital sigma):
\* the word is found with its id under each of its non-empty prefixes.
C1_FoundWhenLowerKeepsPrefixes ==
    \A e \in inserted : \A k \in 1..Len(e.word) :
        Lower(Take(e.word, k)) = Take(Lower(e.word), k)
            => InList(e.file_id, exact_prefix_search(root, Take(e.word, k)))

\* C1: a word with a capital sigma in the middle was inserted, and the prefix
\* that ends with the sigma finds nothing
C1_PrefixLost ==
    /\ [word |-> <<"a", "SIGMA", "a">>, file_id |-> 1] \in inserted
    /\ exact_prefix_search(root, <<"a">>) = <<1>>
    /\ exact_prefix_search(root, <<"a", "SIGMA">>) = <<>>

---------------------------------------------------------------------------
(* levenshtein_distance alone: one call on arguments drawn by Init.        *)

LevStrings == Strings({"a", "b"}, MaxLevLen)

InitLev ==
    /\ root = EmptyTrie
    /\ files_index = <<>>
    /\ user_interactions = <<>>
    /\ search_history = <<>>
    /\ now = 0
    /\ ops = [insert_word |-> 0, index_file |-> 0, record_interaction |-> 0,
              clear_search_cache |-> 0, initialize_search_index |-> 0]
    /\ last_search = None
    /\ prev_search = None
    /\ between = NoOps
    /\ since = NoOps
    /\ inserted = {}
    /\ lev_in \in {Some([s1 |-> s1, s2 |-> s2, max_distance |-> d]) :
                       s1 \in LevStrings, s2 \in LevStrings, d \in 0..MaxDist}
    /\ lev_out = None
    /\ stats = None
    /\ running = Idle

SpecLev == InitLev /\ [][Levenshtein]_vars

\* the reference: the edit distance by its defining recursion, with no bound
RECURSIVE EditDistance(_, _)
EditDistance(a, b) ==
    IF Len(a) = 0 THEN Len(b)
    ELSE IF Len(b) = 0 THEN Len(a)
    ELSE Min3(EditDistance(Tail(a), b) + 1,
              EditDistance(a, Tail(b)) + 1,
              EditDistance(Tail(a), Tail(b)) + (IF a[1] = b[1] THEN 0 ELSE 1))

\* C2: levenshtein_distance(a, b, d) is the edit distance of a and b when
\* that is at most d, and is exactly d + 1 when it is more.
C2_DistanceOrSentinel ==
    ~IsNone(lev_out) =>
        LET c == Val(lev_in)
            true_distance == EditDistance(c.s1, c.s2)
        IN Val(lev_out) = IF true_distance <= c.max_distance
                          THEN true_distance ELSE c.max_distance + 1

\* C2, as far as the code goes: the edit distance when that is at most d,
\* and some number above d, at most the edit distance, when it is more.
C2_DistanceOrAbove ==
    ~IsNone(lev_out) =>
        LET c == Val(lev_in)
            true_distance == EditDistance(c.s1, c.s2)
        IN IF true_distance <= c.max_distance
           THEN Val(lev_out) = true_distance
           ELSE /\ Val(lev_out) > c.max_distance
                /\ Val(lev_out) <= true_distance

\* C2: a call that returned more than max_distance + 1
C2_AboveSentinel ==
    /\ lev_in = Some([s1 |-> <<"a", "a", "b", "b">>,
                      s2 |-> <<"b", "b", "a", "a">>, max_distance |-> 2])
    /\ lev_out = Some(4)

---------------------------------------------------------------------------
(* Ranking: an indexed corpus, interactions, the clock, repeated searches. *)

RankCorpus ==
    <<File(1, <<"a", "b">>, <<>>, 0, Absent, <<>>, <<>>),
      File(2, <<"a">>, <<>>, 0, Absent, <<>>, <<>>),
      File(3, <<"a", "b">>, <<>>, 0, Absent, <<>>, <<>>)>>

RankQueries == {<<"a">>}

\* room for two of the three files, and the default limit
RankLimits == {Len(RankCorpus) - 1, 50}

RankInteractions ==
    {[interaction_type |-> "view", query |-> None],
     [interaction_type |-> "select", query |-> None],
     [interaction_type |-> "download", query |-> Some(<<"A">>)]}

\* the trie after index_file was called for each file of a corpus, in order
RECURSIVE IndexAll(_, _)
IndexAll(t, corpus) ==
    IF Len(corpus) = 0 THEN t
    ELSE IndexAll(index_file(t, corpus[1]), Tail(corpus))

\* the engine after the corpus was indexed
InitRank ==
    /\ root = IndexAll(EmptyTrie, RankCorpus)
    /\ files_index = RankCorpus
    /\ user_interactions = <<>>
    /\ search_history = <<>>
    /\ now = 0
    /\ ops = [insert_word |-> 0, index_file |-> Len(RankCorpus),
              record_interaction |-> 0,
              clear_search_cache |-> 0, initialize_search_index |-> 0]
    /\ last_search = None
    /\ prev_search = None
    /\ between = NoOps
    /\ since = NoOps
    /\ inserted = {[word |-> IndexWords(RankCorpus[k])[i],
                    file_id |-> RankCorpus[k].id] :
                       k \in 1..Len(RankCorpus), i \in 1..2}
    /\ lev_in = None
    /\ lev_out = None
    /\ stats = None
    /\ running = Idle

NextRank ==
    \/ \E file_id \in {1, 2}, i \in RankInteractions :
           /\ ops.record_interaction < MaxInteractions
           /\ RecordInteraction(file_id, i.interaction_type, i.query)
    \/ \E query \in RankQueries, limit \in RankLimits :
           Len(search_history) < MaxSearches /\ Search(query, limit, TRUE)
    \/ now < MaxDay /\ Tick

SpecRank == InitRank /\ [][NextRank]_vars

\* where file_id stands in a result list, 0 when it is not in it
Position(results, file_id) ==
    LET at == {i \in 1..Len(results) : results[i].file.id = file_id}
    IN IF at = {} THEN 0 ELSE First(at)

Returned(results, file_id) == Position(results, file_id) > 0

\* search_score of a returned file
Score(results, file_id) == results[Position(results, file_id)].search_score

\* a is in the list, and b, if it is in the list, comes later with a lower score
RankedAbove(results, a, b) ==
    /\ Returned(results, a)
    /\ Returned(results, b) =>
           /\ Position(results, a) < Position(results, b)
           /\ Score(results, a) > Score(results, b)

\* the latest search repeats the call before it, and neither raised
Repeated ==
    /\ ~IsNone(prev_search)
    /\ ~IsNone(last_search)
    /\ Val(prev_search).query = Val(last_search).query
    /\ Val(prev_search).limit = Val(last_search).limit
    /\ Val(prev_search).use_fuzzy = Val(last_search).use_fuzzy
    /\ ~Val(prev_search).raised
    /\ ~Val(last_search).raised

\* the interactions recorded on file_id between the two latest searches
InteractionsOn(file_id) ==
    {i \in 1..Len(between.interactions) :
         between.interactions[i].file_id = file_id}

\* a and b tied in the earlier search, then one view, download or select was
\* recorded on a and nothing on b
TieThenInteraction(a, b) ==
    /\ Repeated
    /\ a # b
    /\ Returned(Val(prev_search).results, a)
    /\ Returned(Val(prev_search).results, b)
    /\ Score(Val(prev_search).results, a) = Score(Val(prev_search).results, b)
    /\ Cardinality(InteractionsOn(a)) = 1
    /\ InteractionsOn(b) = {}

\* C3: when two records tie for a query and one interaction is then recorded
\* on one of them and none on the other, the next search of the same query
\* ranks the first strictly above the second.
C3_InteractionBreaksTie ==
    \A a \in {1, 2, 3}, b \in {1, 2, 3} :
        TieThenInteraction(a, b)
            => RankedAbove(Val(last_search).results, a, b)

\* C3, within the day: the same, when the next search runs on the day of the
\* interaction (less than a day after it).
C3_InteractionBreaksTieSameDay ==
    \A a \in {1, 2, 3}, b \in {1, 2, 3} :
        /\ TieThenInteraction(a, b)
        /\ \A i \in InteractionsOn(a) :
               between.interactions[i].day = Val(last_search).day
        => RankedAbove(Val(last_search).results, a, b)

\* C3: a tie, an interaction on one of the two, and a search on the same day
\* that returns both
C3_Witness ==
    \E a \in {1, 2}, b \in {1, 2, 3} :
        /\ TieThenInteraction(a, b)
        /\ \A i \in InteractionsOn(a) :
               between.interactions[i].day = Val(last_search).day
        /\ Returned(Val(last_search).results, b)
        /\ Position(Val(last_search).results, a) = 1

\* exactly one select without a query was recorded between the two latest
\* searches, on a file the earlier one returned, and nothing else happened
SelectBetween(e) ==
    /\ Repeated
    /\ between.interactions = <<e>>
    /\ between.ticks = 0
    /\ e.interaction_type = "select"
    /\ IsNone(e.query)
    /\ Returned(Val(prev_search).results, e.file_id)

\* C4: one select without a query, recorded on a returned record in whatever
\* interaction state, raises the record's score for the repeated search by
\* exactly 10.
C4_SelectAddsTen ==
    \A i \in 1..Len(between.interactions) :
        LET e == between.interactions[i]
        IN SelectBetween(e) =>
               /\ Returned(Val(last_search).results, e.file_id)
               /\ Score(Val(last_search).results, e.file_id)
                      = Score(Val(prev_search).results, e.file_id) + 10

\* C4, with the recency boost: the select raises the score by 10 plus what the recency boost
\* gains, 21 less the boost the record had; by exactly 10 when the record was
\* last accessed on the same day, by 31 when it had never been accessed.
C4_SelectAddsTenAndRecency ==
    \A i \in 1..Len(between.interactions) :
        LET e == between.interactions[i]
            boost_was == RecencyBoost([last_accessed |-> e.was], e.day)
        IN SelectBetween(e) =>
               /\ Returned(Val(last_search).results, e.file_id)
               /\ Score(Val(last_search).results, e.file_id)
                      = Score(Val(prev_search).results, e.file_id)
                            + 10 + (21 - boost_was)
               /\ boost_was = 21 <=> e.was = Some(e.day)

\* C4: a select on a record already accessed that day, and the repeated
\* search scores it 10 higher
C4_Witness ==
    \E i \in 1..Len(between.interactions) :
        LET e == between.interactions[i]
        IN /\ SelectBetween(e)
           /\ e.was = Some(e.day)
           /\ Score(Val(last_search).results, e.file_id)
                  = Score(Val(prev_search).results, e.file_id) + 10

---------------------------------------------------------------------------
(* Typos: files indexed under a tag, then searches for the tag with one    *)
(* character deleted.                                                      *)

FuzzyTokens ==
    (Strings({"a", " "}, MaxWordLen) \ {<<>>})
        \cup {<<"i", "m", "g", "s">>, <<"a", "B", "c", "d">>}

FuzzyFiles ==
    {File(id, <<>>, <<>>, 0, Absent, <<w>>, <<>>) :
         id \in {1, 2}, w \in FuzzyTokens}

\* w without its p-th character
Delete(w, p) == SubSeq(w, 1, p - 1) \o SubSeq(w, p + 1, Len(w))

\* the tokens files are indexed under: the words handed to insert_word and
\* the tags as the files spell them
Tokens ==
    inserted \cup
        {[word |-> files_index[i].tags[j], file_id |-> files_index[i].id] :
             i \in 1..Len(files_index), j \in {1}}

\* the queries one deletion away from a token of two or more characters
Typos ==
    UNION {{Delete(e.word, p) : p \in 1..Len(e.word)} :
               e \in {x \in Tokens : Len(x.word) >= 2}}

NextFuzzy ==
    \/ \E file_data \in FuzzyFiles :
           ops.index_file < MaxIndexCalls /\ IndexFile(file_data)
    \/ \E query \in Typos :
           /\ Len(search_history) < MaxSearches
           /\ Search(query, Len(files_index), TRUE)

SpecFuzzy == Init /\ [][NextFuzzy]_vars

\* q is a semantic keyword once lower-cased
IsSemanticKeyword(q) == Lower(Join(Split(q))) \in SemanticKeys

\* q holds no @type:, @ext:, @size: or @date: token
NoFilterToken(q) ==
    \A i \in 1..Len(q) :
        q[i] \notin TypeKeys \cup ExtKeys \cup SizeKeys \cup DateKeys

\* ' '.join(q.split()) == q: search takes q itself as its search terms
OwnSearchTerms(q) == Join(Split(q)) = q

\* the latest search ran on the index as it is, fuzzy, with room for all files
FuzzySearched ==
    /\ ~IsNone(last_search)
    /\ ~since.indexed
    /\ Val(last_search).use_fuzzy
    /\ Val(last_search).limit >= Len(files_index)

\* C5: a fuzzy search for an indexed word of two or more characters with one
\* character deleted, the query being no semantic keyword and holding no filter
\* token, returns every file indexed under the word.
C5_DeletionIsFound ==
    \A e \in Tokens : \A p \in 1..Len(e.word) :
        /\ FuzzySearched
        /\ Len(e.word) >= 2
        /\ Val(last_search).query = Delete(e.word, p)
        /\ ~IsSemanticKeyword(Val(last_search).query)
        /\ NoFilterToken(Val(last_search).query)
        => Returned(Val(last_search).results, e.file_id)

\* C5, for the queries that are their own search terms: the same, when the
\* query has no leading, trailing or repeated whitespace and lower-cases to the
\* lower-cased word less one character.
C5_DeletionIsFoundWhenOwnTerms ==
    \A e \in Tokens : \A p \in 1..Len(e.word) :
        /\ FuzzySearched
        /\ Len(e.word) >= 2
        /\ Val(last_search).query = Delete(e.word, p)
        /\ ~IsSemanticKeyword(Val(last_search).query)
        /\ NoFilterToken(Val(last_search).query)
        /\ OwnSearchTerms(Val(last_search).query)
        /\ Lower(Val(last_search).query) = Delete(Lower(e.word), p)
        => Returned(Val(last_search).results, e.file_id)

\* C5: two files under "aBcd", and the search for "acd", which is no prefix
\* of it, returns both as fuzzy matches
C5_Witness ==
    /\ FuzzySearched
    /\ Val(last_search).query = <<"a", "c", "d">>
    /\ \A id \in {1, 2} :
           /\ [word |-> <<"a", "B", "c", "d">>, file_id |-> id] \in Tokens
           /\ Returned(Val(last_search).results, id)
           /\ Val(last_search).results[Position(Val(last_search).results, id)]
                  .match_type = "fuzzy"

---------------------------------------------------------------------------
(* Filters: files of several types, extensions, sizes and upload times,    *)
(* then searches with @type:, @ext:, @size: and @date: filters.            *)

FilterFiles ==
    {File(1, <<"a">>, <<"a">>, 1024, Naive(1), <<>>, <<"b">>),
     File(1, <<"a">>, <<"A">>, 2048, Aware(2), <<>>, <<".", "B">>),
     File(2, <<"a", "b">>, <<"a">>, 0, Absent, <<>>, <<>>),
     File(2, <<"b">>, <<>>, 1536, Garbage, <<>>, <<"b">>),
     File(3, <<"a">>, <<"b">>, 2048, Naive(2), <<>>, <<"b", ".">>)}

\* one filter each
SingleFilters ==
    {<<"@type:", "a">>, <<"@TYPE:", "A">>, <<"@ext:", "b">>,
     <<"@size:", ">", "1">>, <<"@size:", "<", "1", ".", "5", "k", "b">>,
     <<"@date:", ">", "2024-01-02">>, <<"@date:", "<", "2024-01-01">>,
     <<"@date:", "2024-13-45">>}

FilterQueries ==
    SingleFilters
        \cup {<<"a">>,
              <<"@type:", "a", " ", "a">>,
              <<"@date:", ">", "2024-01-01", " ", "@date:", "<", "2024-01-02">>,
              <<"@type:", "a", " ", "@date:", ">", "2024-01-01">>}

NextFilter ==
    \/ \E file_data \in FilterFiles :
           ops.index_file < MaxIndexCalls /\ IndexFile(file_data)
    \/ \E query \in FilterQueries :
           Len(search_history) < MaxSearches /\ Search(query, 50, TRUE)

SpecFilter == Init /\ [][NextFilter]_vars

\* the filters of the latest search's query
LastFilters == parse_advanced_filters(Val(last_search).query)

\* the latest search ran on the files as they are now
Searched == ~IsNone(last_search) /\ ~since.indexed

\* the query sets a filter
SetsFilter(filters) ==
    \/ ~IsNone(filters.type) \/ ~IsNone(filters.extension)
    \/ ~IsNone(filters.size_min) \/ ~IsNone(filters.size_max)
    \/ ~IsNone(filters.date_from) \/ ~IsNone(filters.date_to)

\* the latest search had filters and no search terms
FilterOnly ==
    /\ Searched
    /\ ~LastFilters.raised
    /\ SetsFilter(LastFilters)
    /\ LastFilters.search_terms = <<>>

\* uploaded_at is a timestamp
Dated(fd) == fd.uploaded_at.kind \in {"naive", "aware"}

\* The file satisfies every filter that is set, as the filters are described:
\* type equality, extension equality, size within [min, max], date within
\* [from, to].
SatisfiesFilters(fd, filters) ==
    /\ IsNone(filters.type) \/ fd.type = Val(filters.type)
    /\ IsNone(filters.extension) \/ fd.extension = Val(filters.extension)
    /\ IsNone(filters.size_min)
           \/ fd.size * Val(filters.size_min).den >= Val(filters.size_min).num
    /\ IsNone(filters.size_max)
           \/ fd.size * Val(filters.size_max).den <= Val(filters.size_max).num
    /\ IsNone(filters.date_from)
           \/ (Dated(fd) /\ fd.uploaded_at.day >= Val(filters.date_from))
    /\ IsNone(filters.date_to)
           \/ (Dated(fd) /\ fd.uploaded_at.day <= Val(filters.date_to))

\* match_type of a returned file
MatchType(results, file_id) == results[Position(results, file_id)].match_type

\* the query is @type: and one word
TypeQuery(q) ==
    /\ Len(q) >= 2
    /\ q[1] \in TypeKeys
    /\ \A i \in 2..Len(q) : IsWordChar(q[i])

\* the search returned, and returned every indexed file that satisfies the
\* filters as a filter match; for @type:T, the files of type T and no other
FilterOnlyReturnsAll ==
    /\ ~Val(last_search).raised
    /\ \A i \in 1..Len(files_index) :
           SatisfiesFilters(files_index[i], LastFilters)
               => /\ Returned(Val(last_search).results, files_index[i].id)
                  /\ MatchType(Val(last_search).results, files_index[i].id)
                         = "filter"
    /\ TypeQuery(Val(last_search).query)
           => \A i \in 1..Len(files_index) :
                  Returned(Val(last_search).results, files_index[i].id)
                      <=> Lower(files_index[i].type)
                              = Lower(Chars(Tail(Val(last_search).query)))

\* C6: a search with filters and without search terms returns every indexed
\* file that satisfies all the filters, as a filter match; search('@type:T')
\* returns all the files of type T and only them.
C6_FilterOnlyReturnsAll == FilterOnly => FilterOnlyReturnsAll

\* a file with a time zone in uploaded_at is indexed
AwareIndexed ==
    \E i \in 1..Len(files_index) : files_index[i].uploaded_at.kind = "aware"

\* C6, short of comparing a date filter with a time in a time zone: the same,
\* when the query sets no date filter or no indexed uploaded_at has a zone.
C6_FilterOnlyReturnsAllUnzoned ==
    /\ FilterOnly
    /\ (IsNone(LastFilters.date_from) /\ IsNone(LastFilters.date_to))
           \/ ~AwareIndexed
    => FilterOnlyReturnsAll

\* C6: a date filter alone met a file uploaded with a time zone, and search
\* raised
C6_DateFilterRaised ==
    /\ FilterOnly
    /\ Val(last_search).query = <<"@date:", ">", "2024-01-02">>
    /\ AwareIndexed
    /\ Val(last_search).raised

\* C7: every file in a search result satisfies every filter of the query:
\* type and extension equal to the filter's, size within [size_min, size_max],
\* uploaded_at within [date_from, date_to].
C7_ResultsSatisfyFilters ==
    Searched =>
        \A k \in 1..Len(Val(last_search).results) :
            SatisfiesFilters(Val(last_search).results[k].file, LastFilters)

\* The file passes every filter that is set: type equal to the filter's
\* without regard to case, extension equal without regard to case and dots,
\* size within [min, max], and uploaded_at, when it is a timestamp, within
\* [from, to].
PassesFilters(fd, filters) ==
    /\ IsNone(filters.type) \/ Lower(fd.type) = Val(filters.type)
    /\ IsNone(filters.extension)
           \/ RemoveAll(Lower(fd.extension), <<".">>) = Val(filters.extension)
    /\ IsNone(filters.size_min)
           \/ fd.size * Val(filters.size_min).den >= Val(filters.size_min).num
    /\ IsNone(filters.size_max)
           \/ fd.size * Val(filters.size_max).den <= Val(filters.size_max).num
    /\ IsNone(filters.date_from) \/ ~Dated(fd)
           \/ fd.uploaded_at.day >= Val(filters.date_from)
    /\ IsNone(filters.date_to) \/ ~Dated(fd)
           \/ fd.uploaded_at.day <= Val(filters.date_to)

\* C7, as the code compares: every file in a search result passes every
\* filter of the query, the type and the extension compared in lower case and
\* the extension without dots, and the date filters binding only the files
\* whose uploaded_at is a timestamp; a query without filters drops no file
\* that the prefix search of its terms finds.
C7_ResultsPassFilters ==
    Searched =>
        /\ \A k \in 1..Len(Val(last_search).results) :
               PassesFilters(Val(last_search).results[k].file, LastFilters)
        /\ (~SetsFilter(LastFilters) /\ ~LastFilters.raised)
               => \A i \in 1..Len(files_index) :
                      InList(files_index[i].id,
                             exact_prefix_search(
                                 root, Join(LastFilters.search_terms)))
                          => Returned(Val(last_search).results,
                                      files_index[i].id)

\* C7: a search with a type and a date filter returned the file of that type
\* uploaded in the range and dropped a file of another type
C7_Witness ==
    /\ Searched
    /\ Val(last_search).query
           = <<"@type:", "a", " ", "@date:", ">", "2024-01-01">>
    /\ \E k \in 1..Len(Val(last_search).results) :
           /\ Val(last_search).results[k].file.uploaded_at = Naive(1)
           /\ Val(last_search).results[k].file.type = <<"a">>
    /\ \E i \in 1..Len(files_index) :
           /\ files_index[i].type = <<"b">>
           /\ ~Returned(Val(last_search).results, files_index[i].id)

---------------------------------------------------------------------------
(* Semantic keywords: image and video files, interactions, the clock, and  *)
(* searches for the keyword img in several spellings.                      *)

SemCorpus ==
    <<File(1, <<"i", "m", "g", "1">>, W_image, 0, Absent, <<>>, <<>>),
      File(2, <<"b">>, W_image, 0, Absent, <<>>, <<>>),
      File(3, <<"i", "m", "g">>, W_video, 0, Absent, <<>>, <<>>)>>

SemQueries ==
    {<<"i", "m", "g">>,
     <<"I", "M", "G">>,
     <<"@type:">> \o W_image,
     <<"@type:">> \o W_image \o <<" ", "i", "m", "g">>,
     <<"@type:">> \o W_image \o <<" ", "I", "M", "G">>,
     <<"I", "m">>}

SemInteractions ==
    {[interaction_type |-> "select", query |-> Some(<<"i", "m", "g">>)]}

\* the engine after the corpus was indexed
InitSem ==
    /\ root = IndexAll(EmptyTrie, SemCorpus)
    /\ files_index = SemCorpus
    /\ user_interactions = <<>>
    /\ search_history = <<>>
    /\ now = 0
    /\ ops = [insert_word |-> 0, index_file |-> Len(SemCorpus),
              record_interaction |-> 0,
              clear_search_cache |-> 0, initialize_search_index |-> 0]
    /\ last_search = None
    /\ prev_search = None
    /\ between = NoOps
    /\ since = NoOps
    /\ inserted = {[word |-> IndexWords(SemCorpus[k])[i],
                    file_id |-> SemCorpus[k].id] :
                       k \in 1..Len(SemCorpus), i \in 1..3}
    /\ lev_in = None
    /\ lev_out = None
    /\ stats = None
    /\ running = Idle

NextSem ==
    \/ \E file_id \in {1, 2}, i \in SemInteractions :
           /\ ops.record_interaction < MaxInteractions
           /\ RecordInteraction(file_id, i.interaction_type, i.query)
    \/ \E query \in SemQueries :
           Len(search_history) < MaxSearches /\ Search(query, 50, TRUE)
    \/ now < MaxDay /\ Tick

SpecSem == InitSem /\ [][NextSem]_vars

\* nothing was called since the latest search
JustSearched == ~IsNone(last_search) /\ since = NoOps

\* what search returns, called now with the arguments of the latest search
\* and another query
SearchNow(query) ==
    search(root, files_index, user_interactions, now, query,
           Val(last_search).limit, Val(last_search).use_fuzzy)

\* the terms of the query are a semantic keyword, in whatever case
KeywordTerms(filters) ==
    /\ ~filters.raised
    /\ Lower(Join(filters.search_terms)) \in SemanticKeys

\* C8: the search for a semantic keyword k, the query setting no @type,
\* returns the list (files, scores, match types, order) that the search for
\* @type:c returns in the same state, c being the first category of k; when
\* the query sets @type, the keyword is searched as a term and no result is a
\* filter match.
C8_KeywordIsTypeFilter ==
    JustSearched /\ KeywordTerms(LastFilters) =>
        IF Val(last_search).query = Join(LastFilters.search_terms)
        THEN /\ ~Val(last_search).raised
             /\ Val(last_search).results
                    = SearchNow(<<"@type:">> \o semantic_map(
                          Lower(Val(last_search).query))[1]).results
        ELSE ~IsNone(LastFilters.type) =>
                 /\ Val(last_search).results
                        = SearchTermsAsTyped(
                              root, files_index, user_interactions, now,
                              LastFilters, Join(LastFilters.search_terms),
                              Val(last_search).limit,
                              Val(last_search).use_fuzzy).results
                 /\ \A k \in 1..Len(Val(last_search).results) :
                        Val(last_search).results[k].match_type # "filter"

\* C8: after interactions, the keyword in capitals returned the two image
\* files as filter matches with different scores; and a search for the
\* keyword under @type:image returned a file as an exact match
C8_Witness ==
    /\ JustSearched
    /\ ~IsNone(prev_search)
    /\ Val(prev_search).query = <<"@type:">> \o W_image \o <<" ", "i", "m", "g">>
    /\ \E k \in 1..Len(Val(prev_search).results) :
           Val(prev_search).results[k].match_type = "exact"
    /\ Val(last_search).query = <<"I", "M", "G">>
    /\ Len(Val(last_search).results) = 2
    /\ Val(last_search).results[1].match_type = "filter"
    /\ Val(last_search).results[1].search_score
           > Val(last_search).results[2].search_score
    /\ Val(last_search).results = SearchNow(<<"@type:">> \o W_image).results

\* the terms the latest search looked up in the trie: those of the query,
\* unless they were a keyword turned into a type filter
TermsSearched ==
    /\ ~LastFilters.raised
    /\ LastFilters.search_terms # <<>>
    /\ ~IsNone(LastFilters.type) \/ ~KeywordTerms(LastFilters)

\* every returned file that the prefix search of the literal terms finds is an
\* exact match, and every semantic match was found by the prefix search of an
\* expansion term and not of the literal terms
LiteralIsExact ==
    LET terms == Join(LastFilters.search_terms)
        results == Val(last_search).results
    IN \A k \in 1..Len(results) :
           /\ InList(results[k].file.id, exact_prefix_search(root, terms))
                  => results[k].match_type = "exact"
           /\ results[k].match_type = "semantic"
                  => /\ ~InList(results[k].file.id,
                                exact_prefix_search(root, terms))
                     /\ KeywordTerms(LastFilters)
                     /\ \E x \in ListToSet(semantic_map(Lower(terms))) :
                            InList(results[k].file.id,
                                   exact_prefix_search(root, x))

\* C9: for search terms in any letter case, every file found by the prefix
\* search of the literal terms is tagged exact, and a file is tagged semantic
\* only when the prefix search of an expansion term found it and that of the
\* literal terms did not.
C9_LiteralIsExact == JustSearched /\ TermsSearched => LiteralIsExact

\* C9, for terms typed in lower case: the same.
C9_LiteralIsExactInLowerCase ==
    /\ JustSearched
    /\ TermsSearched
    /\ Lower(Join(LastFilters.search_terms)) = Join(LastFilters.search_terms)
    => LiteralIsExact

\* C9: the search for Im returned the file named img as a semantic match
C9_LiteralTaggedSemantic ==
    /\ JustSearched
    /\ Val(last_search).query = <<"I", "m">>
    /\ \E k \in 1..Len(Val(last_search).results) :
           /\ Val(last_search).results[k].file.name = <<"i", "m", "g">>
           /\ Val(last_search).results[k].match_type = "semantic"

---------------------------------------------------------------------------
(* The order and the cut of the result list, under SpecRank.               *)

\* every file that survives the filters, scored: what the latest search
\* returns, called now with room for every indexed file
Survivors ==
    search(root, files_index, user_interactions, now, Val(last_search).query,
           Len(files_index), Val(last_search).use_fuzzy).results

\* C10: the returned list is in non-increasing search_score order, holds
\* min(limit, number of surviving candidates) of them, and no surviving
\* candidate left out scores strictly higher than a returned one.
C10_SortedTopKept ==
    JustSearched /\ ~Val(last_search).raised =>
        LET results == Val(last_search).results
        IN /\ \A i \in 1..Len(results), j \in 1..Len(results) :
                  i < j => results[i].search_score >= results[j].search_score
           /\ Len(results) = Min2(Val(last_search).limit, Len(Survivors))
           /\ \A c \in 1..Len(Survivors) :
                  ~Returned(results, Survivors[c].file.id)
                      => \A k \in 1..Len(results) :
                             Survivors[c].search_score
                                 <= results[k].search_score

\* C10: three files matched with two different scores, the search returned
\* two of them, the higher score first, and left out a file with the lower one
C10_Witness ==
    /\ JustSearched
    /\ Len(Survivors) = 3
    /\ Len(Val(last_search).results) = 2
    /\ Val(last_search).results[1].search_score
           > Val(last_search).results[2].search_score
    /\ \E c \in 1..3 :
           /\ ~Returned(Val(last_search).results, Survivors[c].file.id)
           /\ Survivors[c].search_score
                  = Val(last_search).results[2].search_score

---------------------------------------------------------------------------
(* get_stats, and the views that work on the engine as a whole.            *)

\* _get_trie_depth(self.root): the length of the longest path
TrieDepth(t) ==
    CHOOSE d \in 0..Cardinality(DOMAIN t) :
        /\ \E p \in DOMAIN t : Len(p) = d
        /\ \A p \in DOMAIN t : Len(p) <= d

\* what get_stats returns
get_stats(t, files, ui, history) ==
    [total_files_indexed |-> Len(files),
     total_searches |-> Len(history),
     unique_files_with_interactions |-> Cardinality(DOMAIN ui),
     trie_depth |-> TrieDepth(t)]

\* get_stats()
GetStats ==
    /\ stats' = Some(get_stats(root, files_index, user_interactions,
                               search_history))
    /\ UNCHANGED <<root, files_index, user_interactions, search_history, now,
                   ops, last_search, prev_search, between, since, inserted,
                   lev_in, lev_out, running>>

\* A MediaFile row of the database, as far as _file_to_dict reads it.
MediaFile(id, original_name, detected_type, file_size, uploaded_at, ai_tags, file_extension) ==
    [id |-> id, original_name |-> original_name,
     detected_type |-> detected_type, file_size |-> file_size,
     uploaded_at |-> uploaded_at, ai_tags |-> ai_tags,
     file_extension |-> file_extension]

\* _file_to_dict(media_file): an empty detected_type becomes 'other'; a Django
\* DateTimeField is turned into its ISO string
_file_to_dict(media_file) ==
    File(media_file.id, media_file.original_name,
         IF Len(media_file.detected_type) = 0
         THEN <<"o", "t", "h", "e", "r">>
         ELSE media_file.detected_type,
         media_file.file_size, media_file.uploaded_at, media_file.ai_tags,
         media_file.file_extension)

\* the record map after index_file was called for each row, in order
RECURSIVE PutAll(_, _)
PutAll(files, rows) ==
    IF Len(rows) = 0 THEN files
    ELSE PutAll(FilePut(files, _file_to_dict(rows[1])), Tail(rows))

\* initialize_search_index(request), all_files being the rows of the database
InitializeSearchIndex(all_files) ==
    /\ root' = IndexAll(root, List([i \in 1..Len(all_files) |->
                                         _file_to_dict(all_files[i])]))
    /\ files_index' = PutAll(files_index, all_files)
    /\ inserted' = inserted \cup
           UNION {{[word |-> IndexWords(_file_to_dict(all_files[k]))[i],
                    file_id |-> all_files[k].id] :
                       i \in 1..Len(IndexWords(_file_to_dict(all_files[k])))} :
                      k \in 1..Len(all_files)}
    /\ stats' = Some(get_stats(root', files_index', user_interactions,
                               search_history))
    /\ ops' = [ops EXCEPT !.initialize_search_index = @ + 1]
    /\ since' = [since EXCEPT !.indexed = TRUE]
    /\ UNCHANGED <<user_interactions, search_history, now, last_search,
                   prev_search, between, lev_in, lev_out, running>>

\* The record_interaction calls in progress after the store dropped or replaced
\* the records of the given ids: a call that holds such a record keeps the
\* dict it fetched, which is no longer the one in the store.
Detached(calls, ui, ids) ==
    List([t \in 1..Len(calls) |->
              IF calls[t].attached /\ calls[t].file_id \in ids
              THEN [calls[t] EXCEPT !.attached = FALSE,
                                    !.mine = ui[calls[t].file_id]]
              ELSE calls[t]])

\* clear_search_cache(request)
ClearSearchCache ==
    /\ search_history' = <<>>
    /\ user_interactions' = <<>>
    /\ ops' = [ops EXCEPT !.clear_search_cache = @ + 1]
    /\ since' = [since EXCEPT !.indexed = TRUE]
    /\ running' = [running EXCEPT
                       !.record_interaction =
                           Detached(@, user_interactions,
                                    DOMAIN user_interactions)]
    /\ UNCHANGED <<root, files_index, now, last_search, prev_search, between,
                   inserted, lev_in, lev_out, stats>>

---------------------------------------------------------------------------
(* Searches at the edges: limits below one, blank queries, filter tokens    *)
(* whose value does not parse.                                              *)

\* a negative limit, zero, and the default
LimitLimits == {-1, 0, 50}

\* a word, a blank and an empty query, a date of the right shape that is no
\* calendar date, a size and a date that are not of the shape
LimitQueries ==
    {<<"a">>, <<" ">>, <<>>,
     <<"@date:", "2024-13-45">>,
     <<"@size:", "a">>,
     <<"@date:", "a">>}

NextLimit ==
    \/ \E query \in LimitQueries, limit \in LimitLimits :
           /\ Len(search_history) < MaxSearches
           /\ Search(query, limit, TRUE)
    \/ /\ ops.record_interaction < MaxInteractions
       /\ RecordInteraction(1, "view", None)

SpecLimit == InitRank /\ [][NextLimit]_vars

\* C11: a search called with a limit returns at most max(limit, 0) results
\* and does not raise; with a limit of zero or below it returns nothing.
C11_AtMostLimit ==
    ~IsNone(last_search) =>
        /\ ~Val(last_search).raised
        /\ Len(Val(last_search).results) <= Max2(Val(last_search).limit, 0)

\* C11, for the limits from zero up and the queries whose dates are calendar
\* dates: the search does not raise and returns at most limit results.
C11_AtMostLimitFromZero ==
    (/\ ~IsNone(last_search)
     /\ Val(last_search).limit >= 0
     /\ ~parse_advanced_filters(Val(last_search).query).raised) =>
        /\ ~Val(last_search).raised
        /\ Len(Val(last_search).results) <= Val(last_search).limit

\* C11: search('a', limit=-1) on the three files returned two of them
C11_NegativeLimitReturns ==
    /\ ~IsNone(last_search)
    /\ Val(last_search).query = <<"a">>
    /\ Val(last_search).limit = -1
    /\ ~Val(last_search).raised
    /\ Len(Val(last_search).results) = Len(RankCorpus) - 1

\* the query is one token, an @size: filter whose value is no number
MalformedSize(q) ==
    /\ Len(q) > 0 /\ Len(Split(q)) = 1
    /\ q[1] \in SizeKeys /\ IsNone(SizeMatch(q))

\* the query is one token, an @date: filter whose value is not of the shape
\* YYYY-MM-DD
UnshapedDate(q) ==
    /\ Len(q) > 0 /\ Len(Split(q)) = 1
    /\ q[1] \in DateKeys /\ IsNone(DateMatch(q))

\* the query is one token, an @date: filter whose value is of the shape
\* YYYY-MM-DD and is no calendar date
UnrealDate(q) ==
    /\ Len(q) > 0 /\ Len(Split(q)) = 1
    /\ q[1] \in DateKeys /\ ~IsNone(DateMatch(q))
    /\ IsNone(strptime(Val(DateMatch(q)).date_str))

\* neither the parser nor the search raised, the size and date filters are
\* unset, and the token is a search term
KeptAsTerm(call) ==
    LET filters == parse_advanced_filters(call.query)
    IN /\ ~filters.raised
       /\ ~call.raised
       /\ IsNone(filters.size_min) /\ IsNone(filters.size_max)
       /\ IsNone(filters.date_from) /\ IsNone(filters.date_to)
       /\ InList(Chars(call.query), filters.search_terms)

\* C12: a query that is a filter token with a malformed value (a size that is
\* no number, a date of the shape YYYY-MM-DD that is no calendar date, a date
\* that is not of the shape) makes neither parse_advanced_filters nor search
\* raise; the filter stays unset and the token remains in search_terms.
C12_MalformedIsTerm ==
    (/\ ~IsNone(last_search)
     /\ \/ MalformedSize(Val(last_search).query)
        \/ UnshapedDate(Val(last_search).query)
        \/ UnrealDate(Val(last_search).query)) =>
        KeptAsTerm(Val(last_search))

\* C12, for the values that are not of the shape the filter looks for (a size
\* that is no number, a date that is not YYYY-MM-DD): nothing raises, the
\* filter stays unset and the token remains in search_terms.
C12_UnshapedIsTerm ==
    (/\ ~IsNone(last_search)
     /\ \/ MalformedSize(Val(last_search).query)
        \/ UnshapedDate(Val(last_search).query)) =>
        KeptAsTerm(Val(last_search))

\* C12: the search for '@date:2024-13-45' ended in the ValueError of strptime
C12_UnrealDateRaised ==
    /\ ~IsNone(last_search)
    /\ UnrealDate(Val(last_search).query)
    /\ parse_advanced_filters(Val(last_search).query).raised
    /\ Val(last_search).raised
    /\ Val(last_search).results = <<>>

\* the step is a search call: the one action that files the latest search as
\* the one before and starts the account of what happened since
SearchStep ==
    /\ ~IsNone(last_search')
    /\ prev_search' = last_search
    /\ between' = since
    /\ since' = NoOps

\* what a search step leaves alone: the trie, the record map and the
\* interaction store; a blank query returns the empty list and leaves the
\* history, any other query that does not raise adds one to total_searches
SearchFrame(query) ==
    /\ root' = root
    /\ files_index' = files_index
    /\ user_interactions' = user_interactions
    /\ IF Len(Strip(query)) = 0
       THEN /\ Val(last_search').results = <<>>
            /\ ~Val(last_search').raised
            /\ search_history' = search_history
       ELSE ~Val(last_search').raised =>
                get_stats(root', files_index', user_interactions',
                          search_history').total_searches
                    = get_stats(root, files_index, user_interactions,
                                search_history).total_searches + 1

\* C13: search changes neither the trie, the record map nor the interaction
\* store (scoring a file that has no interaction record creates none); a
\* search with an empty or whitespace-only query returns an empty list and
\* leaves the search history as it was, and every other search that completes
\* adds exactly one to total_searches.
C13_SearchFrame ==
    [][SearchStep => SearchFrame(Val(last_search').query)]_vars

\* C13: a blank search returned nothing and was not logged; the search for
\* 'a' after it was logged once and returned file 2, scored without an
\* interaction record, and the store holds the record of file 1 alone
C13_Witness ==
    /\ ~IsNone(prev_search) /\ ~IsNone(last_search)
    /\ Val(prev_search).query = <<" ">>
    /\ Val(prev_search).results = <<>>
    /\ Val(last_search).query = <<"a">>
    /\ Returned(Val(last_search).results, 2)
    /\ since = NoOps
    /\ DOMAIN user_interactions = {1}
    /\ Len(search_history) = 1

---------------------------------------------------------------------------
(* The engine over its life: indexing, interactions on ids with and without *)
(* a file, searches, statistics, the cache clear and the rebuild.           *)

StoreFiles ==
    {File(1, <<"a">>, <<"c">>, 0, Absent, <<>>, <<>>),
     File(2, <<"a", "b">>, <<"c">>, 0, Absent, <<>>, <<>>)}

\* the rows of the database: file 1 alone, its type not detected
StoreRows == <<MediaFile(1, <<"a">>, <<>>, 0, Absent, <<>>, <<>>)>>

\* a word of both names, and a filter-only query
StoreQueries == {<<"a">>, <<"@type:", "c">>}

\* indexing, direct trie inserts, interactions on an id before and after it has
\* a file, searches
NextOrphan ==
    \/ \E file_data \in StoreFiles :
           ops.index_file < MaxIndexCalls /\ IndexFile(file_data)
    \/ ops.insert_word < MaxInserts /\ InsertWord(<<"a">>, 2)
    \/ /\ ops.record_interaction < MaxInteractions
       /\ RecordInteraction(2, "view", None)
    \/ \E query \in StoreQueries :
           Len(search_history) < MaxSearches /\ Search(query, 50, TRUE)

SpecOrphan == Init /\ [][NextOrphan]_vars

\* indexing, interactions, searches, statistics, and the cache clear
NextStore ==
    \/ ops.index_file < MaxIndexCalls
           /\ IndexFile(File(1, <<"a">>, <<"c">>, 0, Absent, <<>>, <<>>))
    \/ \E file_id \in {1, 2}, interaction_type \in {"view", "download"} :
           /\ ops.record_interaction < MaxInteractions
           /\ RecordInteraction(file_id, interaction_type, Some(<<"a">>))
    \/ Len(search_history) < MaxSearches /\ Search(<<"a">>, 50, TRUE)
    \/ GetStats
    \/ ops.clear_search_cache < MaxClears /\ ClearSearchCache

SpecStore == Init /\ [][NextStore]_vars

\* the ids that have a file_data in the record map
FileIds(files) == {files[i].id : i \in 1..Len(files)}

\* the ids of a result list
ResultIds(results) == {results[i].file.id : i \in 1..Len(results)}

\* the step is a record_interaction call
RecordStep == ops'.record_interaction = ops.record_interaction + 1

\* the id the latest record_interaction was called with
RecordedId(account) == account.interactions[Len(account.interactions)].file_id

\* every id of the latest search's results has a file_data
ResultsIndexed ==
    ~IsNone(last_search) =>
        ResultIds(Val(last_search).results) \subseteq FileIds(files_index)

\* C14: record_interaction for an id that was never indexed succeeds and
\* leaves an interaction record for it, one more id in the store when it had
\* none; and whatever was called, every id in a search result has a file_data
\* in the record map, so an id without one is in no result.
C14_OrphanKept ==
    [][/\ (RecordStep /\ RecordedId(since') \notin FileIds(files_index)) =>
              /\ RecordedId(since') \in DOMAIN user_interactions'
              /\ user_interactions'[RecordedId(since')].view_count > 0
              /\ RecordedId(since') \notin DOMAIN user_interactions =>
                     get_stats(root', files_index', user_interactions',
                               search_history').unique_files_with_interactions
                         = get_stats(root, files_index, user_interactions,
                                     search_history)
                               .unique_files_with_interactions + 1
       /\ ResultsIndexed']_vars

\* C14: id 2 is in the trie under 'a' and has an interaction record and no
\* file_data; the search for 'a' that came last returned file 1 alone
C14_Witness ==
    /\ 2 \in DOMAIN user_interactions
    /\ 2 \notin FileIds(files_index)
    /\ [word |-> <<"a">>, file_id |-> 2] \in inserted
    /\ ~IsNone(last_search)
    /\ since = NoOps
    /\ Val(last_search).query = <<"a">>
    /\ ResultIds(Val(last_search).results) = {1}

---------------------------------------------------------------------------
(* index_file called again with a record it has indexed.                    *)

\* the nodes index_file(fd) passes through: the non-empty prefixes of the
\* words it inserts
TokenPaths(fd) ==
    UNION {{Take(IndexWords(fd)[i], k) : k \in 1..Len(IndexWords(fd)[i])} :
               i \in 1..Len(IndexWords(fd))}

\* no id occurs twice in a list
NoRepeat(lst) == \A i, j \in 1..Len(lst) : lst[i] = lst[j] => i = j

\* the step is index_file(fd) for a file_data that the record map holds
ReindexStep(fd) ==
    /\ ops'.index_file = ops.index_file + 1
    /\ InList(fd, files_index)
    /\ files_index' = files_index
    /\ root' = index_file(root, fd)

\* C15: index_file called with a record it has already indexed leaves the set
\* of trie nodes, their is_end_of_word flags and their postings as they were
\* (no id twice in a posting list, as many records indexed as before), and
\* the frequency of every node on the paths of the record's tokens is
\* strictly higher after the call.
C15_ReindexKeepsStructure ==
    [][\A fd \in TrieFiles : ReindexStep(fd) =>
           /\ DOMAIN root' = DOMAIN root
           /\ \A p \in DOMAIN root :
                  /\ root'[p].is_end_of_word = root[p].is_end_of_word
                  /\ root'[p].file_references = root[p].file_references
                  /\ NoRepeat(root'[p].file_references)
           /\ Len(files_index') = Len(files_index)
           /\ TokenPaths(fd) \subseteq DOMAIN root
           /\ \A p \in TokenPaths(fd) :
                  root'[p].frequency > root[p].frequency]_vars

\* C15: index_file was called twice with file 1 and nothing else was called:
\* one record, one posting of id 1 at 'ab', frequency 4 (two passes per call)
C15_Witness ==
    /\ ops.index_file = 2
    /\ ops.insert_word = 0
    /\ Len(files_index) = 1
    /\ files_index[1].id = 1
    /\ root[<<"a", "b">>].file_references = <<1>>
    /\ root[<<"a", "b">>].is_end_of_word
    /\ root[<<"a", "b">>].frequency = 4

\* the step is a clear_search_cache call
ClearStep == ops'.clear_search_cache = ops.clear_search_cache + 1

\* lst is the beginning of longer
IsPrefix(lst, longer) ==
    Len(lst) <= Len(longer) /\ SubSeq(longer, 1, Len(lst)) = lst

\* every id with a record before has one after, with counters at least as
\* high and the queries it had
StoreGrows(before, after) ==
    /\ DOMAIN before \subseteq DOMAIN after
    /\ \A id \in DOMAIN before :
           /\ after[id].view_count >= before[id].view_count
           /\ after[id].download_count >= before[id].download_count
           /\ after[id].search_selections >= before[id].search_selections
           /\ IsPrefix(before[id].search_queries, after[id].search_queries)

\* C16: a step of index_file, search, record_interaction or get_stats keeps
\* every interaction record and lowers none of its view, download and
\* selection counters nor its list of past queries; the step of
\* clear_search_cache empties the interaction store and the search history
\* and leaves the trie and the record map as they were.
C16_StoreGrowsUntilCleared ==
    [][IF ClearStep
       THEN /\ DOMAIN user_interactions' = {}
            /\ search_history' = <<>>
            /\ root' = root
            /\ files_index' = files_index
       ELSE StoreGrows(user_interactions, user_interactions')]_vars

\* C16: an interaction was recorded, the cache was cleared, and a view of
\* id 1 after the clear began its record again
C16_Witness ==
    /\ ops.clear_search_cache = 1
    /\ ops.record_interaction = MaxInteractions
    /\ DOMAIN user_interactions = {1}
    /\ user_interactions[1].view_count = 1
    /\ Len(files_index) = 1
    /\ search_history = <<>>

---------------------------------------------------------------------------
(* The rebuild of the index from the rows of the database.                  *)

NextRebuild ==
    \/ \E file_data \in StoreFiles :
           ops.index_file < MaxIndexCalls /\ IndexFile(file_data)
    \/ ops.initialize_search_index < MaxRebuilds
           /\ InitializeSearchIndex(StoreRows)
    \/ \E query \in StoreQueries :
           Len(search_history) < MaxSearches /\ Search(query, 50, TRUE)

SpecRebuild == Init /\ [][NextRebuild]_vars

\* the step is an initialize_search_index call
RebuildStep ==
    ops'.initialize_search_index = ops.initialize_search_index + 1

RowIds(rows) == {rows[i].id : i \in 1..Len(rows)}

\* the ids a search for one of the queries returns in the given engine
Found(t, files, ui, clock) ==
    UNION {ResultIds(search(t, files, ui, clock, query, 50, TRUE).results) :
               query \in StoreQueries}

\* C17: after initialize_search_index over the rows S of the database the
\* index holds exactly S: total_files_indexed is the size of S, and a file
\* indexed before the rebuild that is not in S is returned by no search.
C17_RebuildHoldsExactlyRows ==
    [][RebuildStep =>
           /\ FileIds(files_index') = RowIds(StoreRows)
           /\ Val(stats').total_files_indexed = Len(StoreRows)
           /\ Found(root', files_index', user_interactions', now')
                  \subseteq RowIds(StoreRows)]_vars

\* C17, as far as the rebuild goes: after it every row of S is indexed as
\* _file_to_dict gives it, next to every file indexed before; the index holds
\* exactly S when it held no file outside S.
C17_RebuildAddsRows ==
    [][RebuildStep =>
           /\ FileIds(files_index') = FileIds(files_index) \cup RowIds(StoreRows)
           /\ \A i \in 1..Len(StoreRows) :
                  FileGet(files_index', StoreRows[i].id)
                      = Some(_file_to_dict(StoreRows[i]))
           /\ Val(stats').total_files_indexed
                  = Cardinality(FileIds(files_index) \cup RowIds(StoreRows))
           /\ FileIds(files_index) \subseteq RowIds(StoreRows) =>
                  /\ Val(stats').total_files_indexed = Len(StoreRows)
                  /\ Found(root', files_index', user_interactions', now')
                         \subseteq RowIds(StoreRows)]_vars

\* C17: file 2 was indexed, the rebuild ran over the rows (file 1 alone) and
\* reported two indexed files, and the search after it returned file 2
C17_StaleAfterRebuild ==
    /\ ops.initialize_search_index = 1
    /\ ~IsNone(stats)
    /\ Val(stats).total_files_indexed = 2
    /\ ~IsNone(last_search)
    /\ ~since.indexed
    /\ 2 \in ResultIds(Val(last_search).results)
    /\ 2 \notin RowIds(StoreRows)

---------------------------------------------------------------------------
(* A search repeated later, with no interaction recorded in between.        *)

\* the ids both of the two latest searches returned
ReturnedTwice ==
    {id \in ResultIds(Val(last_search).results) :
         Returned(Val(prev_search).results, id)}

\* the two latest searches gave file_id the same score
SameScore(file_id) ==
    Score(Val(prev_search).results, file_id)
        = Score(Val(last_search).results, file_id)

\* C20: the score depends on nothing but the arguments of calculate_score and
\* the interaction store: a search repeated with no record_interaction in
\* between, however much later, gives every file the score it gave before.
C20_SameScoresLater ==
    (Repeated /\ between.interactions = <<>>) =>
        \A id \in ReturnedTwice : SameScore(id)

\* C20, with the clock: a search repeated with no record_interaction in
\* between gives a file the score it gave before when it runs on the same
\* day, or when the file has no interaction record.
C20_SameScoresSameDayOrNoRecord ==
    (Repeated /\ between.interactions = <<>>) =>
        \A id \in ReturnedTwice :
            (between.ticks = 0 \/ id \notin DOMAIN user_interactions)
                => SameScore(id)

\* C20: the search was repeated days later with no interaction in between; a
\* file without a record kept its score and a file with one lost some
C20_Witness ==
    /\ Repeated
    /\ between.interactions = <<>>
    /\ between.ticks > 0
    /\ \E id \in ReturnedTwice :
           id \notin DOMAIN user_interactions /\ SameScore(id)
    /\ \E id \in ReturnedTwice :
           /\ id \in DOMAIN user_interactions
           /\ Score(Val(last_search).results, id)
                  < Score(Val(prev_search).results, id)

---------------------------------------------------------------------------
(* index_file in one thread, searches in another. No lock is taken in the   *)
(* engine or in the views; a thread switch can come between any two calls   *)
(* that index_file makes, so the steps below are the store into files_index *)
(* and each insert_word call.                                               *)

\* index_file(file_data) up to its first insert_word: the record is stored
IndexFileBegin(file_data) ==
    /\ IsNone(running.index_file)
    /\ files_index' = FilePut(files_index, file_data)
    /\ running' = [running EXCEPT
                       !.index_file = Some([file_data |-> file_data,
                                            words |-> IndexWords(file_data)])]
    /\ since' = [since EXCEPT !.indexed = TRUE]
    /\ UNCHANGED <<root, user_interactions, search_history, now, ops,
                   last_search, prev_search, between, inserted, lev_in,
                   lev_out, stats>>

\* the next insert_word call of the index_file in progress; the call returns
\* after its last one
IndexFileStep ==
    /\ ~IsNone(running.index_file)
    /\ LET call == Val(running.index_file)
       IN /\ root' = insert_word(root, call.words[1], call.file_data.id)
          /\ inserted' = inserted \cup {[word |-> call.words[1],
                                         file_id |-> call.file_data.id]}
          /\ running' = [running EXCEPT
                             !.index_file =
                                 IF Len(call.words) = 1 THEN None
                                 ELSE Some([call EXCEPT !.words = Tail(@)])]
          /\ ops' = [ops EXCEPT !.index_file =
                         IF Len(call.words) = 1 THEN @ + 1 ELSE @]
    /\ since' = [since EXCEPT !.indexed = TRUE]
    /\ UNCHANGED <<files_index, user_interactions, search_history, now,
                   last_search, prev_search, between, lev_in, lev_out, stats>>

NextWriter ==
    \/ \E file_data \in StoreFiles :
           ops.index_file < MaxIndexCalls /\ IndexFileBegin(file_data)
    \/ IndexFileStep
    \/ \E query \in StoreQueries :
           Len(search_history) < MaxSearches /\ Search(query, 50, TRUE)

SpecWriter == Init /\ [][NextWriter]_vars

\* every record of the record map is found under each of its tokens
FullyIndexed(t, files) ==
    \A i \in 1..Len(files) : \A k \in 1..Len(IndexWords(files[i])) :
        InList(files[i].id, exact_prefix_search(t, IndexWords(files[i])[k]))

\* C18: a search that runs while index_file is in progress finds each record
\* of the record map under all of its tokens: it sees no record whose tokens
\* are not yet all in the trie.
C18_SearchSeesWholeRecords ==
    [][SearchStep => FullyIndexed(root, files_index)]_vars

\* C18, between the calls: whenever no index_file is in progress, every record
\* of the record map is found under all of its tokens.
C18_WholeWhenNoWriter ==
    IsNone(running.index_file) => FullyIndexed(root, files_index)

\* C18: index_file has stored file 1, named 'a', and has not inserted its
\* words; the filter-only search returned file 1 and the search for 'a' that
\* followed returned nothing
C18_SearchSawHalfRecord ==
    /\ ~IsNone(running.index_file)
    /\ Val(running.index_file).file_data.id = 1
    /\ Val(running.index_file).words = IndexWords(Val(running.index_file).file_data)
    /\ FileIds(files_index) = {1}
    /\ ~IsNone(prev_search) /\ ~IsNone(last_search)
    /\ since = NoOps /\ between = NoOps
    /\ Val(prev_search).query = <<"@type:", "c">>
    /\ ResultIds(Val(prev_search).results) = {1}
    /\ Val(last_search).query = <<"a">>
    /\ Val(last_search).results = <<>>

---------------------------------------------------------------------------
(* record_interaction in several threads. No lock is taken. The steps of a  *)
(* call are: the lookup self.user_interactions[file_id], which for a new id *)
(* runs the factory of the defaultdict and then stores what it made; the    *)
(* read of the counter; the write of the counter plus one.                  *)

\* the counter record_interaction adds to
Counter(record, interaction_type) ==
    IF interaction_type = "view" THEN record.view_count
    ELSE IF interaction_type = "download" THEN record.download_count
    ELSE record.search_selections

\* record[counter] = value; record['last_accessed'] = datetime.now()
Counted(record, interaction_type, value, clock) ==
    [(IF interaction_type = "view"
      THEN [record EXCEPT !.view_count = value]
      ELSE IF interaction_type = "download"
      THEN [record EXCEPT !.download_count = value]
      ELSE [record EXCEPT !.search_selections = value])
     EXCEPT !.last_accessed = Some(clock)]

\* the call th of the calls in progress
Call(th) == running.record_interaction[th]

\* the dict the call holds: the one in the store, or its own
Held(th) ==
    IF Call(th).attached THEN user_interactions[Call(th).file_id]
    ELSE Call(th).mine

\* a thread enters record_interaction(file_id, interaction_type)
RecordBegin(file_id, interaction_type) ==
    /\ running' = [running EXCEPT
                       !.record_interaction =
                           Append(@, [file_id |-> file_id,
                                      interaction_type |-> interaction_type,
                                      pc |-> "lookup", attached |-> FALSE,
                                      mine |-> NewInteractions, read |-> 0,
                                      stray |-> FALSE])]
    /\ UNCHANGED <<root, files_index, user_interactions, search_history, now,
                   ops, last_search, prev_search, between, since, inserted,
                   lev_in, lev_out, stats>>

\* self.user_interactions[file_id]: the record found, or, for a missing key,
\* the factory called and its result not yet stored
RecordLookup(th) ==
    /\ Call(th).pc = "lookup"
    /\ running' = [running EXCEPT
                       !.record_interaction[th] =
                           IF Call(th).file_id \in DOMAIN user_interactions
                           THEN [@ EXCEPT !.pc = "read", !.attached = TRUE]
                           ELSE [@ EXCEPT !.pc = "missing"]]
    /\ UNCHANGED <<root, files_index, user_interactions, search_history, now,
                   ops, last_search, prev_search, between, since, inserted,
                   lev_in, lev_out, stats>>

\* __missing__ stores the record the factory made, over whatever another
\* thread stored under the key meanwhile; a call that has finished on the
\* record replaced has its update on a record that is not in the store
RecordStoreMissing(th) ==
    /\ Call(th).pc = "missing"
    /\ user_interactions' =
           (Call(th).file_id :> NewInteractions) @@ user_interactions
    /\ running' = [running EXCEPT
                       !.record_interaction =
                           [t \in 1..Len(@) |->
                                IF t = th
                                THEN [@[t] EXCEPT !.pc = "read",
                                                  !.attached = TRUE]
                                ELSE [Detached(@, user_interactions,
                                               {Call(th).file_id})[t]
                                      EXCEPT !.stray =
                                          \/ @
                                          \/ /\ Call(t).attached
                                             /\ Call(t).file_id = Call(th).file_id
                                             /\ Call(t).pc = "done"]]]
    /\ UNCHANGED <<root, files_index, search_history, now, ops, last_search,
                   prev_search, between, since, inserted, lev_in, lev_out,
                   stats>>

\* the read of interactions[counter] in the += statement
RecordRead(th) ==
    /\ Call(th).pc = "read"
    /\ running' = [running EXCEPT
                       !.record_interaction[th] =
                           [@ EXCEPT !.pc = "write",
                                     !.read =
                                         Counter(Held(th),
                                                 Call(th).interaction_type)]]
    /\ UNCHANGED <<root, files_index, user_interactions, search_history, now,
                   ops, last_search, prev_search, between, since, inserted,
                   lev_in, lev_out, stats>>

\* the write of the += statement and the rest of the call, on the dict the
\* call holds
RecordWrite(th) ==
    /\ Call(th).pc = "write"
    /\ LET record == Counted(Held(th), Call(th).interaction_type,
                             Call(th).read + 1, now)
       IN /\ user_interactions' =
                 IF Call(th).attached
                 THEN [user_interactions EXCEPT ![Call(th).file_id] = record]
                 ELSE user_interactions
          /\ running' = [running EXCEPT
                             !.record_interaction[th] =
                                 [@ EXCEPT !.pc = "done",
                                           !.mine = record,
                                           !.stray = ~Call(th).attached]]
    /\ ops' = [ops EXCEPT !.record_interaction = @ + 1]
    /\ UNCHANGED <<root, files_index, search_history, now, last_search,
                   prev_search, between, since, inserted, lev_in, lev_out,
                   stats>>

NextRace ==
    \/ \E file_id \in {1, 2} :
           /\ Len(running.record_interaction) < MaxInteractions
           /\ RecordBegin(file_id, "view")
    \/ \E th \in 1..Len(running.record_interaction) : RecordLookup(th)
    \/ \E th \in 1..Len(running.record_interaction) : RecordStoreMissing(th)
    \/ \E th \in 1..Len(running.record_interaction) : RecordRead(th)
    \/ \E th \in 1..Len(running.record_interaction) : RecordWrite(th)
    \/ ops.clear_search_cache < MaxClears /\ ClearSearchCache

SpecRace == Init /\ [][NextRace]_vars

\* the calls that have returned, all of them or those on one id
AllReturned ==
    /\ Len(running.record_interaction) > 0
    /\ \A th \in 1..Len(running.record_interaction) : Call(th).pc = "done"

ReturnedOn(file_id) ==
    {th \in 1..Len(running.record_interaction) :
         Call(th).pc = "done" /\ Call(th).file_id = file_id}

\* view_count of the id in the store, 0 when it has no record
Views(file_id) ==
    IF file_id \in DOMAIN user_interactions
    THEN user_interactions[file_id].view_count ELSE 0

\* C19: when n record_interaction calls of one type on one id have run
\* concurrently, the id's counter is n higher than before; and no call,
\* whether it raced with the first interaction of another thread on a new id
\* or with clear_search_cache, has its update on a record that is not in the
\* store.
C19_NoLostUpdate ==
    /\ \A th \in 1..Len(running.record_interaction) : ~Call(th).stray
    /\ (AllReturned /\ ops.clear_search_cache = 0) =>
           \A file_id \in {1, 2} :
               Views(file_id) = Cardinality(ReturnedOn(file_id))

\* C19, as far as it goes without a lock: with no clear, once the calls have
\* returned an id's counter is at least 1 when a call was made on it and at
\* most the number of calls; it is that number when no call has its update
\* on a record out of the store and no two calls read the counter before
\* either wrote it.
C19_CountedAtMostOnce ==
    (AllReturned /\ ops.clear_search_cache = 0) =>
        \A file_id \in {1, 2} :
            /\ Views(file_id) <= Cardinality(ReturnedOn(file_id))
            /\ ReturnedOn(file_id) # {} => Views(file_id) >= 1
            /\ (\A th \in ReturnedOn(file_id) :
                    /\ ~Call(th).stray
                    /\ \A other \in ReturnedOn(file_id) :
                           other # th => Call(other).read # Call(th).read)
                   => Views(file_id) = Cardinality(ReturnedOn(file_id))

\* C19: two first views of id 1 have returned, nothing was cleared, the
\* counter in the store is 1, and one of the two updates is on a record that
\* the other call's store replaced
C19_UpdateOnReplacedRecord ==
    /\ AllReturned
    /\ ops.clear_search_cache = 0
    /\ Cardinality(ReturnedOn(1)) = 2
    /\ Views(1) = 1
    /\ \E th \in ReturnedOn(1) : Call(th).stray

---------------------------------------------------------------------------
(* Queries of two tokens: filters of the same and of different kinds, and   *)
(* plain words, parsed by search on an empty engine.                        *)

ParseTokens ==
    {<<"@type:", "a">>, <<"@type:", "b">>, <<"@TYPE:", "a">>,
     <<"@ext:", "a">>, <<"@ext:", "b">>,
     <<"@size:", ">", "1">>, <<"@size:", "<", "2">>,
     <<"@date:", ">", "2024-01-01">>, <<"@date:", "<", "2024-01-02">>,
     <<"c">>}

ParseQueries ==
    ParseTokens \cup {a \o <<" ">> \o b : a \in ParseTokens, b \in ParseTokens}

NextParse ==
    \E query \in ParseQueries :
        Len(search_history) < MaxSearches /\ Search(query, 50, TRUE)

SpecParse == Init /\ [][NextParse]_vars

\* where the filters of a kind occur in the query, and the text of each
KeywordAt(q, keys) ==
    {i \in 1..(Len(q) - 1) : q[i] \in keys /\ IsWordChar(q[i + 1])}

KeywordTexts(q, keys) ==
    {SubSeq(q, i, RunEnd(q, i + 1, WordChars)) : i \in KeywordAt(q, keys)}

SizeAt(q) == {i \in 1..Len(q) : ~IsNone(SizeMatchAt(q, i))}

SizeTexts(q) ==
    {SubSeq(q, i, Val(SizeMatchAt(q, i)).end) : i \in SizeAt(q)}

DateAt(q) == {i \in 1..Len(q) : ~IsNone(DateMatchAt(q, i))}

DateTexts(q) ==
    {SubSeq(q, i, Val(DateMatchAt(q, i)).end) : i \in DateAt(q)}

\* the greatest element of a non-empty set of positions
Last(S) == CHOOSE i \in S : \A j \in S : j <= i

\* the value the filter of a keyword kind has at position i
KeywordValue(q, i) == Lower(SubSeq(q, i + 1, RunEnd(q, i + 1, WordChars)))

\* the filters are those of the occurrences the choice picks for each kind
FiltersFrom(q, filters, Pick(_)) ==
    /\ KeywordAt(q, TypeKeys) # {} =>
           filters.type = Some(KeywordValue(q, Pick(KeywordAt(q, TypeKeys))))
    /\ KeywordAt(q, ExtKeys) # {} =>
           filters.extension
               = Some(KeywordValue(q, Pick(KeywordAt(q, ExtKeys))))
    /\ SizeAt(q) # {} =>
           LET m == Val(SizeMatchAt(q, Pick(SizeAt(q))))
           IN IF m.operator = ">"
              THEN filters.size_min = Some(SizeBytes(m))
              ELSE filters.size_max = Some(SizeBytes(m))
    /\ DateAt(q) # {} =>
           LET m == Val(DateMatchAt(q, Pick(DateAt(q))))
           IN IF m.operator = ">"
              THEN filters.date_from = strptime(m.date_str)
              ELSE filters.date_to = strptime(m.date_str)

\* no filter token is left among the search terms
FiltersRemoved(filters) ==
    \A k \in 1..Len(filters.search_terms) :
        ~StartsWith(filters.search_terms[k], <<"@">>)

\* C21: when a filter kind occurs more than once in the query,
\* parse_advanced_filters sets the filter to the value of the last occurrence
\* from the left and leaves no recognized filter token in search_terms.
C21_LastOccurrenceWins ==
    ~IsNone(last_search) =>
        /\ FiltersFrom(Val(last_search).query, LastFilters, Last)
        /\ FiltersRemoved(LastFilters)

\* C21, as the parser goes: each filter has the value of the first occurrence
\* of its kind, and no filter token is left in search_terms when the
\* occurrences of each kind are the same text.
C21_FirstOccurrenceWins ==
    ~IsNone(last_search) =>
        /\ FiltersFrom(Val(last_search).query, LastFilters, First)
        /\ (/\ Cardinality(KeywordTexts(Val(last_search).query, TypeKeys)) <= 1
            /\ Cardinality(KeywordTexts(Val(last_search).query, ExtKeys)) <= 1
            /\ Cardinality(SizeTexts(Val(last_search).query)) <= 1
            /\ Cardinality(DateTexts(Val(last_search).query)) <= 1)
               => FiltersRemoved(LastFilters)

\* C21: '@type:a @type:b' was parsed: the type filter is 'a' and '@type:b' is
\* a search term
C21_FirstKeptSecondLeft ==
    /\ ~IsNone(last_search)
    /\ Val(last_search).query = <<"@type:", "a", " ", "@type:", "b">>
    /\ LastFilters.type = Some(<<"a">>)
    /\ LastFilters.search_terms = <<Chars(<<"@type:", "b">>)>>

---------------------------------------------------------------------------
(* fuzzy_search_trie and exact_prefix_search on the tries of SpecTrie.      *)

\* the ids fuzzy_search_trie returns
FuzzyIds(t, prefix, max_distance) ==
    ListToSet(fuzzy_search_trie(t, prefix, max_distance))

\* the postings of the nodes at most depth characters below the root
ShallowIds(t, depth) ==
    UNION {ListToSet(t[p].file_references) :
               p \in {q \in DOMAIN t : Len(q) <= depth}}

\* C22: fuzzy_search_trie with the empty prefix returns the empty list,
\* whatever the trie holds and whatever max_distance >= 0 is.
C22_EmptyPrefixFindsNothing ==
    \A max_distance \in 0..MaxDist :
        fuzzy_search_trie(root, <<>>, max_distance) = <<>>

\* C22, as the traversal goes: with the empty prefix fuzzy_search_trie
\* returns the postings of the nodes at most max_distance characters deep,
\* which is nothing when max_distance is 0.
C22_EmptyPrefixFindsShallow ==
    \A max_distance \in 0..MaxDist :
        /\ FuzzyIds(root, <<>>, max_distance) = ShallowIds(root, max_distance)
        /\ max_distance = 0 => fuzzy_search_trie(root, <<>>, max_distance) = <<>>

\* C22: 'a' was inserted for file 1 and nothing else; the empty prefix finds
\* file 1 with max_distance 1
C22_EmptyPrefixFound ==
    /\ inserted = {[word |-> <<"a">>, file_id |-> 1]}
    /\ fuzzy_search_trie(root, <<>>, 1) = <<1>>

\* the ids of the inserted tokens whose path passes through the node at p
PassingIds(p) ==
    {e.file_id : e \in {x \in inserted : StartsWith(Lower(x.word), p)}}

\* the postings of the node at p, as a set
Postings(t, p) == ListToSet(t[p].file_references)

\* the node at p stands for a prefix of an inserted token, and its postings
\* are the ids of the tokens passing through it
NodeOfTokens(p) ==
    /\ \E e \in inserted : StartsWith(Lower(e.word), p)
    /\ Postings(root, p) = PassingIds(p)

\* C23: once insert_word was called, every node of the trie, the root
\* included, stands for a prefix of an inserted token and has as postings
\* exactly the ids of the inserted tokens whose path passes through it; so
\* the postings of a child are among those of its parent.
C23_PostingsArePassingTokens ==
    inserted # {} =>
        \A p \in DOMAIN root :
            /\ NodeOfTokens(p)
            /\ \A c \in Children(root, p) :
                   Postings(root, c) \subseteq Postings(root, p)

\* C23, below the root: every node other than the root stands for a prefix
\* of an inserted token and has as postings exactly the ids of the tokens
\* passing through it, a subset of its parent's when the parent is not the
\* root; the root has no postings.
C23_PostingsBelowRoot ==
    /\ Postings(root, <<>>) = {}
    /\ \A p \in DOMAIN root \ {<<>>} :
           /\ NodeOfTokens(p)
           /\ \A c \in Children(root, p) :
                  Postings(root, c) \subseteq Postings(root, p)

\* C23: 'a', 'B', 'a' was inserted for file 2 and nothing else; the node 'a'
\* has the posting 2 and the root has none
C23_RootWithoutPostings ==
    /\ inserted = {[word |-> <<"a", "B", "a">>, file_id |-> 2]}
    /\ DOMAIN root = {<<>>, <<"a">>, <<"a", "b">>, <<"a", "b", "a">>}
    /\ root[<<"a">>].file_references = <<2>>
    /\ root[<<>>].file_references = <<>>

---------------------------------------------------------------------------
(* fuzzy_search_trie against the traversal as it is specified.             *)

\* the words inserted and the prefixes searched for
GuardWords == Strings({"a", "b"}, MaxWordLen)
FuzzyPrefixes == GuardWords \ {<<>>}

NextGuard ==
    \E word \in GuardWords, file_id \in {1, 2} :
        ops.insert_word < MaxInserts + 1 /\ InsertWord(word, file_id)

SpecGuard == Init /\ [][NextGuard]_vars

\* the specified traversal from the node of path w: the postings of the node
\* when w is as long as the prefix and within the budget, and the children
\* while the distance is within the budget or w is shorter than the prefix
RECURSIVE Traversal(_, _, _, _)
Traversal(t, w, prefix, max_distance) ==
    LET d == levenshtein_distance(w, Take(prefix, Len(w)), max_distance)
    IN (IF Len(w) >= Len(prefix) /\ d <= max_distance
        THEN ListToSet(t[w].file_references) ELSE {})
       \cup (IF d <= max_distance \/ Len(w) < Len(prefix)
             THEN UNION {Traversal(t, c, prefix, max_distance) : c \in Children(t, w)}
             ELSE {})

\* the nodes the guard of dfs gives up: below a node shorter than the prefix
\* whose distance is beyond the budget
GivenUp(t, prefix, max_distance) ==
    {w \in DOMAIN t :
        \E k \in 1..(Len(w) - 1) :
            /\ k < Len(prefix)
            /\ levenshtein_distance(Take(w, k), Take(prefix, k), max_distance)
                   > max_distance}

\* C24: for every non-empty prefix and every max_distance fuzzy_search_trie
\* returns exactly the ids of the specified traversal; the guard of dfs on
\* the distance of the parent removes none of them.
C24_GuardRemovesNothing ==
    \A prefix \in FuzzyPrefixes, max_distance \in 0..MaxDist :
        FuzzyIds(root, prefix, max_distance)
            = Traversal(root, <<>>, prefix, max_distance)

\* the guard has given up a node with postings, three characters deep, for a
\* prefix of three characters
C24_GuardGaveUp ==
    \E prefix \in FuzzyPrefixes, max_distance \in 0..MaxDist :
        \E w \in GivenUp(root, prefix, max_distance) :
            /\ Len(w) = 3
            /\ Len(prefix) = 3
            /\ root[w].file_references # <<>>
            /\ FuzzyIds(root, prefix, max_distance) # {}

---------------------------------------------------------------------------
(* Fuzzy matching and semantic expansion: video files, and searches for    *)
(* the keyword img under a type filter.                                    *)

ExpandCorpus ==
    <<File(1, <<"x", "x", "a", "g", "e">>, W_video, 0, Absent, <<>>, <<>>),
      File(2, <<"b">>, W_video, 0, Absent, <<>>, <<>>),
      File(3, <<"i", "m", "x">>, W_video, 0, Absent, <<>>, <<>>)>>

ExpandQueries ==
    {<<"@type:">> \o W_video \o <<" ", "i", "m", "g">>,
     <<"@type:">> \o W_video \o <<" ", "I", "M", "G">>,
     <<"@type:">> \o W_video \o <<" ", "b">>,
     <<"@type:">> \o W_video,
     <<"i", "m", "g">>,
     <<"i", "m">>}

\* the engine after the corpus was indexed
InitExpand ==
    /\ root = IndexAll(EmptyTrie, ExpandCorpus)
    /\ files_index = ExpandCorpus
    /\ user_interactions = <<>>
    /\ search_history = <<>>
    /\ now = 0
    /\ ops = [insert_word |-> 0, index_file |-> Len(ExpandCorpus),
              record_interaction |-> 0,
              clear_search_cache |-> 0, initialize_search_index |-> 0]
    /\ last_search = None
    /\ prev_search = None
    /\ between = NoOps
    /\ since = NoOps
    /\ inserted = {[word |-> IndexWords(ExpandCorpus[k])[i],
                    file_id |-> ExpandCorpus[k].id] :
                       k \in 1..Len(ExpandCorpus), i \in 1..3}
    /\ lev_in = None
    /\ lev_out = None
    /\ stats = None
    /\ running = Idle

NextExpand ==
    \E query \in ExpandQueries, use_fuzzy \in BOOLEAN :
        Len(search_history) < MaxSearches /\ Search(query, 50, use_fuzzy)

SpecExpand == InitExpand /\ [][NextExpand]_vars

\* the literal term of the latest search: the joined search terms
LiteralTerm == Join(LastFilters.search_terms)

\* the ids the latest search returned as fuzzy matches
FuzzyTagged ==
    {Val(last_search).results[k].file.id :
         k \in {i \in 1..Len(Val(last_search).results) :
                    Val(last_search).results[i].match_type = "fuzzy"}}

\* C25: with use_fuzzy, every record search returns as a fuzzy match is in
\* fuzzy_search_trie(literal term, 2); a record that only the fuzzy search
\* for a semantic expansion of the term reaches is not returned.
C25_FuzzyOnLiteralTermOnly ==
    (~IsNone(last_search) /\ Val(last_search).use_fuzzy /\ ~LastFilters.raised)
        => FuzzyTagged \subseteq FuzzyIds(root, LiteralTerm, 2)

\* C25, as the loop goes: a fuzzy match is in fuzzy_search_trie(e, 2) for
\* the term or one of its semantic expansions e, and is in
\* exact_prefix_search of neither
C25_FuzzyOnEveryExpansion ==
    (~IsNone(last_search) /\ Val(last_search).use_fuzzy /\ ~LastFilters.raised)
        => \A file_id \in FuzzyTagged :
               LET expanded_queries == semantic_expand_query(LiteralTerm)
               IN /\ \E k \in 1..Len(expanded_queries) :
                         file_id \in FuzzyIds(root, expanded_queries[k], 2)
                  /\ file_id \notin
                         ListToSet(exact_prefix_search(root, expanded_queries[1]))

\* '@type:video img' returned file 1 (name 'xxage') as a fuzzy match: it is
\* within two edits of the expansion 'image' and of no prefix of 'img'
C25_FuzzyByExpansion ==
    /\ ~IsNone(last_search)
    /\ Val(last_search).use_fuzzy
    /\ LiteralTerm = <<"i", "m", "g">>
    /\ 1 \in FuzzyTagged
    /\ 3 \in FuzzyTagged
    /\ 1 \notin FuzzyIds(root, LiteralTerm, 2)
    /\ 1 \in FuzzyIds(root, W_image, 2)

---------------------------------------------------------------------------
(* levenshtein_distance as a test of the budget.                           *)

\* the row-minimum exit of levenshtein_distance fires at some row
RECURSIVE RowExit(_, _, _, _, _)
RowExit(s1, s2, i, previous_row, max_distance) ==
    IF i > Len(s1) THEN FALSE
    ELSE LET current_row == LevRow(s1[i], s2, previous_row, <<i>>)
         IN \/ RowMin(current_row) > max_distance
            \/ RowExit(s1, s2, i + 1, current_row, max_distance)

\* C26: levenshtein_distance(a, b, d) <= d exactly when the edit distance of
\* a and b is <= d; neither early exit gives up a pair within the budget and
\* no pair beyond the budget gets a value <= d.
C26_WithinBudgetIffClose ==
    ~IsNone(lev_out) =>
        LET c == Val(lev_in)
        IN (Val(lev_out) <= c.max_distance)
               <=> (EditDistance(c.s1, c.s2) <= c.max_distance)

\* a call of equal lengths, so past the length test, that the row-minimum
\* exit ended
C26_RowExitTaken ==
    /\ ~IsNone(lev_out)
    /\ Len(Val(lev_in).s1) = Len(Val(lev_in).s2)
    /\ Len(Val(lev_in).s1) > 0
    /\ RowExit(Val(lev_in).s1, Val(lev_in).s2, 1,
               List([j \in 1..(Len(Val(lev_in).s2) + 1) |-> j - 1]),
               Val(lev_in).max_distance)
    /\ Val(lev_out) = Val(lev_in).max_distance + 1
    /\ EditDistance(Val(lev_in).s1, Val(lev_in).s2) > Val(lev_in).max_distance

---------------------------------------------------------------------------
(* exact_prefix_search within fuzzy_search_trie: insert_word and           *)
(* index_file calls with short words.                                      *)

NextSubset ==
    \/ \E word \in GuardWords, file_id \in {1, 2} :
           ops.insert_word < MaxInserts /\ InsertWord(word, file_id)
    \/ \E file_data \in TrieFiles :
           ops.index_file < MaxIndexCalls /\ IndexFile(file_data)

SpecSubset == Init /\ [][NextSubset]_vars

\* the ids search finds in the present state, limit above the corpus size
FoundBy(query, use_fuzzy) ==
    ResultIds(search(root, files_index, user_interactions, now,
                     query, 50, use_fuzzy).results)

\* C27: for every non-empty prefix p and every max_distance >= 0,
\* exact_prefix_search(p) is within fuzzy_search_trie(p, max_distance); and
\* the ids search finds with use_fuzzy contain those it finds without.
C27_ExactWithinFuzzy ==
    /\ \A p \in FuzzyPrefixes, max_distance \in 0..MaxDist :
           ListToSet(exact_prefix_search(root, p))
               \subseteq FuzzyIds(root, p, max_distance)
    /\ \A query \in FuzzyPrefixes :
           FoundBy(query, FALSE) \subseteq FoundBy(query, TRUE)

\* the prefix 'a' finds file 2 under the longer word 'aba', beyond
\* max_distance 0, and search('b') finds file 1 with use_fuzzy only
C27_LongerWordFound ==
    /\ [word |-> <<"a", "b", "a">>, file_id |-> 2] \in inserted
    /\ \A e \in inserted : e.file_id = 2 => e.word = <<"a", "b", "a">>
    /\ 2 \in ListToSet(exact_prefix_search(root, <<"a">>))
    /\ 2 \in FuzzyIds(root, <<"a">>, 0)
    /\ FoundBy(<<"b">>, FALSE) = {}
    /\ FoundBy(<<"b">>, TRUE) = {1}

---------------------------------------------------------------------------
(* index_file for an id that is indexed already, with a changed record.    *)

\* file 1 as first stored and with its name, type, extension or tags changed;
\* file 2 under two names
ReindexFiles ==
    {File(1, <<"a">>, <<"c">>, 0, Absent, <<>>, <<>>),
     File(1, <<"b">>, <<"c">>, 0, Absent, <<>>, <<>>),
     File(1, <<"a">>, <<"d">>, 0, Absent, <<>>, <<>>),
     File(1, <<"a">>, <<"c">>, 0, Absent, <<>>, <<".", "e">>),
     File(1, <<"a">>, <<"c">>, 0, Absent, << <<"b">> >>, <<>>),
     File(2, <<"a">>, <<"c">>, 0, Absent, <<>>, <<>>),
     File(2, <<"b", "a">>, <<"c">>, 0, Absent, <<>>, <<>>)}

NextReindex ==
    \E file_data \in ReindexFiles :
        ops.index_file < MaxIndexCalls + 1 /\ IndexFile(file_data)

SpecReindex == Init /\ [][NextReindex]_vars

\* the nodes that have the posting file_id
PostedAt(t, file_id) == {p \in DOMAIN t : file_id \in Postings(t, p)}

\* C28: after index_file for an indexed id with a changed name, type,
\* extension or tags, the postings of the id are exactly the tokens of the
\* record now in the record map; a prefix of a token of the earlier version
\* alone does not return the id.
C28_PostingsOfStoredRecord ==
    \A i \in 1..Len(files_index) :
        /\ PostedAt(root, files_index[i].id) = TokenPaths(files_index[i])
        /\ \A p \in DOMAIN root \ TokenPaths(files_index[i]) :
               p # <<>> => ~InList(files_index[i].id, exact_prefix_search(root, p))

\* C28, as index_file goes: the postings of an id are the tokens of every
\* record index_file was called with for the id, those of the record now in
\* the record map among them
C28_PostingsOfEveryVersion ==
    \A i \in 1..Len(files_index) :
        /\ TokenPaths(files_index[i]) \subseteq PostedAt(root, files_index[i].id)
        /\ PostedAt(root, files_index[i].id) =
               {p \in DOMAIN root \ {<<>>} : files_index[i].id \in PassingIds(p)}

\* file 1 was indexed as 'a' and then as 'b': the record map has the name
\* 'b', and the prefix 'a', a token of the earlier record only, returns 1
C28_EarlierNameStillFound ==
    /\ ops.index_file = 2
    /\ Len(files_index) = 1
    /\ files_index[1].id = 1
    /\ files_index[1].name = <<"b">>
    /\ <<"a">> \notin TokenPaths(files_index[1])
    /\ exact_prefix_search(root, <<"a">>) = <<1>>

---------------------------------------------------------------------------
(* The prior-query bonus: interactions recorded with the query of a search *)
(* and the same query searched again.                                      *)

BonusCorpus ==
    <<File(1, <<"a", " ", "b">>, <<"c">>, 0, Absent,
           << <<"a", " ", "b">> >>, <<>>),
      File(2, <<"b">>, W_image, 0, Absent, <<>>, <<>>)>>

\* a plain term in two cases, a term after a filter token, a semantic keyword
\* and two terms two blanks apart
BonusQueries ==
    {<<"a">>,
     <<"A">>,
     <<"@type:", "c", " ", "a">>,
     <<"i", "m", "g">>,
     <<"a", " ", " ", "b">>}

\* the engine after the corpus was indexed
InitBonus ==
    /\ root = IndexAll(EmptyTrie, BonusCorpus)
    /\ files_index = BonusCorpus
    /\ user_interactions = <<>>
    /\ search_history = <<>>
    /\ now = 0
    /\ ops = [insert_word |-> 0, index_file |-> Len(BonusCorpus),
              record_interaction |-> 0,
              clear_search_cache |-> 0, initialize_search_index |-> 0]
    /\ last_search = None
    /\ prev_search = None
    /\ between = NoOps
    /\ since = NoOps
    /\ inserted = UNION {{[word |-> IndexWords(BonusCorpus[k])[i],
                            file_id |-> BonusCorpus[k].id] :
                               i \in 1..Len(IndexWords(BonusCorpus[k]))} :
                                   k \in 1..Len(BonusCorpus)}
    /\ lev_in = None
    /\ lev_out = None
    /\ stats = None
    /\ running = Idle

NextBonus ==
    \/ \E file_id \in {1, 2}, query \in BonusQueries :
           /\ ops.record_interaction < MaxInteractions
           /\ RecordInteraction(file_id, "view", Some(query))
    \/ \E query \in BonusQueries :
           Len(search_history) < MaxSearches /\ Search(query, 50, TRUE)

SpecBonus == InitBonus /\ [][NextBonus]_vars

\* the store with the recorded queries taken out
Forgotten(ui) ==
    [id \in DOMAIN ui |-> [ui[id] EXCEPT !.search_queries = <<>>]]

\* the score of file_id in what the latest search's call returns on the store
\* without the recorded queries: the score without the prior-query bonus
ScoreUnboosted(file_id) ==
    Score(search(root, files_index, Forgotten(user_interactions), now,
                 Val(last_search).query, 50, TRUE).results, file_id)

\* record_interaction has stored the latest search's query for file_id
RecordedFor(file_id) ==
    /\ file_id \in DOMAIN user_interactions
    /\ InList(Lower(Chars(Val(last_search).query)),
              user_interactions[file_id].search_queries)

\* the string calculate_score gets as query in the latest search
ScoredTerms ==
    LET search_terms == Join(LastFilters.search_terms)
    IN IF Len(search_terms) > 0 /\ IsNone(LastFilters.type)
          /\ Lower(search_terms) \in SemanticKeys
       THEN <<>> ELSE search_terms

\* C29: after record_interaction(id, type, query=q), a later search(q) that
\* returns id has the prior-query bonus of 15 in the score of id, once,
\* whatever q is: a plain term in any case, a query with filter tokens, a
\* semantic keyword, terms with repeated blanks between them.
C29_RecordedQueryIsBoosted ==
    JustSearched =>
        \A file_id \in ResultIds(Val(last_search).results) :
            RecordedFor(file_id) =>
                Score(Val(last_search).results, file_id)
                    = ScoreUnboosted(file_id) + 15

\* C29, as the score is calculated: the bonus of 15 is in the score of id,
\* once, exactly when the joined search terms of the query, lower-cased, are
\* among the recorded queries of id; so it is when q is its own joined terms
C29_BoostedWhenTermsRecorded ==
    JustSearched =>
        \A file_id \in ResultIds(Val(last_search).results) :
            /\ Score(Val(last_search).results, file_id)
                   = ScoreUnboosted(file_id)
                     + (IF file_id \in DOMAIN user_interactions
                           /\ InList(Lower(ScoredTerms),
                                     user_interactions[file_id].search_queries)
                        THEN 15 ELSE 0)
            /\ (RecordedFor(file_id)
                    /\ Lower(Chars(Val(last_search).query)) = Lower(ScoredTerms))
                   => Score(Val(last_search).results, file_id)
                          = ScoreUnboosted(file_id) + 15

\* '@type:c a' was recorded for file 1 and searched, and so was 'a  b': file 1
\* is returned both times and its score has no bonus (100 + 50 for the name
\* and 100 + 30, with 4 for the two views and 21 for the access today)
C29_FilterQueryUnboosted ==
    /\ JustSearched
    /\ Val(last_search).query = <<"@type:", "c", " ", "a">>
    /\ Returned(Val(last_search).results, 1)
    /\ RecordedFor(1)
    /\ Score(Val(last_search).results, 1) = ScoreUnboosted(1)
    /\ ~IsNone(prev_search)
    /\ Val(prev_search).query = <<"a", " ", " ", "b">>
    /\ Returned(Val(prev_search).results, 1)
    /\ between = NoOps
    /\ InList(<<"a", " ", " ", "b">>, user_interactions[1].search_queries)
    /\ Score(Val(prev_search).results, 1) = 175
    /\ Score(Val(last_search).results, 1) = 155

---------------------------------------------------------------------------
(* index_file that raises part-way: a tag that is not a str.               *)

\* a tag that is not a str (a number in the list): tag.lower() raises
\* AttributeError
NotStr == <<"<int>">>

\* index_file(fd) raises at a tag
Raises(fd) == \E k \in 1..Len(fd.tags) : fd.tags[k] = NotStr

\* the words index_file hands to insert_word before it raises: those of the
\* name, the type and the extension, and the tags before the first that is
\* not a str
WordsBeforeRaise(fd) ==
    LET bad == CHOOSE k \in 1..Len(fd.tags) :
                   /\ fd.tags[k] = NotStr
                   /\ \A j \in 1..(k - 1) : fd.tags[j] # NotStr
    IN IndexWords([fd EXCEPT !.tags = SubSeq(@, 1, bad - 1)])

\* index_file(file_data) that raises AttributeError in the loop over the tags
IndexFileRaises(file_data) ==
    /\ Raises(file_data)
    /\ files_index' = FilePut(files_index, file_data)
    /\ root' = InsertAll(root, WordsBeforeRaise(file_data), file_data.id)
    /\ inserted' = inserted \cup
           {[word |-> WordsBeforeRaise(file_data)[i], file_id |-> file_data.id] :
                i \in 1..Len(WordsBeforeRaise(file_data))}
    /\ ops' = [ops EXCEPT !.index_file = @ + 1]
    /\ since' = [since EXCEPT !.indexed = TRUE]
    /\ UNCHANGED <<user_interactions, search_history, now,
                   last_search, prev_search, between, lev_in, lev_out>>
    /\ UNCHANGED <<stats, running>>

\* file 3 with the tags ['d', 7] and file 1 with the tags [7, 'd']
RaiseFiles ==
    {File(3, <<"b">>, <<"c">>, 0, Absent, << <<"d">>, NotStr >>, <<>>),
     File(1, <<"a">>, <<"c">>, 0, Absent, << NotStr, <<"d">> >>, <<>>)}

RaiseQueries == {<<"a">>, <<"d">>, <<"@type:", "c">>}

NextRaise ==
    \/ \E file_data \in StoreFiles :
           ops.index_file < MaxIndexCalls /\ IndexFile(file_data)
    \/ \E file_data \in RaiseFiles :
           ops.index_file < MaxIndexCalls /\ IndexFileRaises(file_data)
    \/ \E query \in RaiseQueries :
           Len(search_history) < MaxSearches /\ Search(query, 50, TRUE)

SpecRaise == Init /\ [][NextRaise]_vars

\* the step is an index_file(fd) call, fd a record index_file raises on
RaisedStep(fd) ==
    /\ ops'.index_file = ops.index_file + 1
    /\ files_index' = FilePut(files_index, fd)

\* the ids the filter-only query '@type:c' returns
TypeFound(t, files) ==
    ResultIds(search(t, files, user_interactions, now,
                     <<"@type:", "c">>, 50, TRUE).results)

\* C30: when index_file raises part-way through a record, the engine is as
\* it was before the call: the record is not put in the record map,
\* total_files_indexed does not count it, no token of it was added to the
\* trie and no filter-only query returns it.
C30_RaiseLeavesEngineUnchanged ==
    [][\A fd \in RaiseFiles : RaisedStep(fd) =>
           /\ files_index' = files_index
           /\ get_stats(root', files_index', user_interactions',
                        search_history').total_files_indexed
                  = get_stats(root, files_index, user_interactions,
                              search_history).total_files_indexed
           /\ root' = root
           /\ TypeFound(root', files_index') = TypeFound(root, files_index)]_vars

\* C30, as index_file goes: when it raises at a tag, the record is in the
\* record map and counted, the words of the name, the type, the extension and
\* the tags before that tag are in the trie with the id, and the filter-only
\* query for its type returns it
C30_RaiseLeavesRecordAndTokens ==
    [][\A fd \in RaiseFiles : RaisedStep(fd) =>
           /\ FileGet(files_index', fd.id) = Some(fd)
           /\ get_stats(root', files_index', user_interactions',
                        search_history').total_files_indexed
                  = Len(FilePut(files_index, fd))
           /\ \A k \in 1..Len(WordsBeforeRaise(fd)) :
                  InList(fd.id, exact_prefix_search(root', WordsBeforeRaise(fd)[k]))
           /\ fd.id \in TypeFound(root', files_index')]_vars

\* index_file raised on file 3 at its second tag and nothing else was
\* indexed: one record is counted, the first tag 'd' finds file 3, and the
\* search for '@type:c' returned it
C30_HalfIndexedIsFound ==
    /\ ops.index_file = 1
    /\ Len(files_index) = 1
    /\ Raises(files_index[1])
    /\ files_index[1].id = 3
    /\ get_stats(root, files_index, user_interactions,
                 search_history).total_files_indexed = 1
    /\ exact_prefix_search(root, <<"d">>) = <<3>>
    /\ JustSearched
    /\ Val(last_search).query = <<"@type:", "c">>
    /\ ResultIds(Val(last_search).results) = {3}

====
